---------------------------- MODULE Spec2Model ----------------------------
(***************************************************************************)
(* stealthy-stats: incremental replication of The Blue Alliance data into  *)
(* a relational store.  The model covers the scope resolver                *)
(* (DBService.get_event_keys), the conditional fetch client                *)
(* (TBAService._get and the get_* normalizers), the BatchAccumulator, the  *)
(* upsert engine (DBService.upsert) and the sync orchestrators with the    *)
(* flows that compose them.                                                *)
(*                                                                         *)
(* Conventions.  A team key "frcN" is the number N.  A date is a day       *)
(* number (day 0 is 1994-01-01), an instant is a number of hours since     *)
(* day 0 00:00 UTC, a timezone is its UTC offset in hours.  A validator    *)
(* token (ETag) is the upstream version number of the resource; NoEtag is  *)
(* Python's None.  A DataFrame is the sequence of its rows, each row a     *)
(* record.                                                                  *)
(***************************************************************************)
EXTENDS Integers, Sequences, FiniteSets, TLC

\* ------------------------------------------------------------------ bounds
\* The flush rule on its own: the largest batch_size and the largest index and
\* total.
MaxBatch == 5
MaxTotal == 16
\* Largest upstream version of a resource.
MaxVer == 2
\* Upstream changes, injected failures and flow invocations of one behaviour.
MaxChanges == 1
MaxFaults == 1
MaxRuns == 2
\* The batch_size handed to the accumulating orchestrators (5, 25 and 50 by
\* default in the source).
BatchSize == 2

\* ------------------------------------------------------- program constants
start_year == 1992
skipped_year == 2021
max_pages == 50
reserved_lo == 9970
reserved_hi == 9999
buffer_hours == 26
task_retries == 2
flow_retries == 2

\* No request made yet.
NoDelay == -1

NoEtag == 0
NoTeam == 0
None == "none"

\* --------------------------------------------------------- small utilities
Range(s) == {s[i] : i \in DOMAIN s}

RECURSIVE Concat(_)
\* pl.concat: the frames of a bucket one after the other.
Concat(frames) ==
    IF frames = <<>> THEN <<>> ELSE Head(frames) \o Concat(Tail(frames))

\* ------------------------------------------------ the upstream provider
\* _TBAEndpoint.build: an endpoint identifier is its template and argument.
Endpoint(kind, arg) == <<kind, arg>>

EventKeys == {"1992c", "1994a", "1994b"}
DataPages == 4

\* The resources whose upstream version changes in a behaviour.
Mutable ==
    { Endpoint("teams", 0), Endpoint("events", 1994),
      Endpoint("event_teams", "1994a"), Endpoint("matches", "1994a"),
      Endpoint("rankings", "1994b"), Endpoint("alliances", "1994a"),
      Endpoint("districts", 1994) }

Endpoints ==
    { Endpoint("teams", p) : p \in 0..DataPages }
    \cup { Endpoint("events", y) : y \in start_year..2022 }
    \cup { Endpoint("districts", y) : y \in start_year..2022 }
    \cup { Endpoint(k, e) : k \in {"event_teams", "matches", "rankings", "alliances"},
                            e \in EventKeys }

\* Team keys.  The key "frc<n>" is the number n; a key the pattern
\* ^frc(\d+)$ does not match, such as "frc2B", is Unmatched + n.
Unmatched == 10000

\* The versions from LongRoster on are those of a roster that has outgrown
\* the pages sync_teams reads: it fills max_pages + 1 of them.
LongRoster == 10

\* The pages of the roster that hold teams.
RosterPages(v) == IF v >= LongRoster THEN max_pages + 1 ELSE DataPages

\* /teams/{page}: one team a page, a reserved-range team on page 1, and the
\* first empty page ends the roster.
RawTeams(page, v) ==
    IF page >= RosterPages(v) THEN <<>>
    ELSE [i \in 1..(IF page = 1 THEN 2 ELSE 1) |->
            [key |-> IF i = 1 THEN page + 1 ELSE 9994,
             team_number |-> IF i = 1 THEN page + 1 ELSE 9994,
             v |-> v]]

RawEvent(key, year, type, start, end, tz, district, v) ==
    [key |-> key, year |-> year, event_type |-> type, start_date |-> start,
     end_date |-> end, timezone |-> tz, district |-> district, v |-> v]

\* /events/{year}.  A null timezone is <<>>, a null district is None.
RawEvents(year, v) ==
    IF year = 1992 THEN
        << RawEvent("1992c", 1992, 0, 0 - 700, 0 - 698, <<>>, None, v),
           RawEvent("1992demo", 1992, 99, 0 - 600, 0 - 600, <<>>, None, v) >>
    ELSE IF year = 1994 THEN
        << RawEvent("1994a", 1994, 0, 10, 12, <<>>, "1994pnw", v),
           RawEvent("1994b", 1994, 1, 11, 12, <<0 - 8>>, None, v) >>
    ELSE <<>>

\* /event/{event_key}/teams/keys: 7 is a team no roster page lists.
RawEventTeams(event_key, v) ==
    IF event_key = "1994a" THEN <<1, 2, 7>>
    ELSE IF event_key = "1994b" THEN <<2, 9994, 9970, 9999, Unmatched + 2>>
    ELSE <<1>>

\* /event/{event_key}/matches
RawMatches(event_key, v) ==
    IF event_key = "1992c" THEN <<>>
    ELSE << [key |-> <<event_key, "qm1">>, event_key |-> event_key,
             red |-> RawEventTeams(event_key, v), blue |-> <<2>>, v |-> v] >>

\* /event/{event_key}/rankings
RawRankings(event_key, v) ==
    [rankings |-> IF event_key = "1992c" THEN <<>> ELSE RawEventTeams(event_key, v),
     v |-> v]

\* /event/{event_key}/alliances: alliance A2 of 1994a has called team 2 in
\* for team 1, and from version 2 on alliance A1 has called in team 7.
RawAlliances(event_key, v) ==
    IF event_key = "1994a" THEN
        << [name |-> "A1", picks |-> <<1, 9994, 2>>,
            backup_in |-> IF v >= 2 THEN 7 ELSE NoTeam,
            backup_out |-> IF v >= 2 THEN 1 ELSE NoTeam, v |-> v],
           [name |-> "A2", picks |-> <<1, 7, Unmatched + 2>>,
            backup_in |-> 2, backup_out |-> 1, v |-> v] >>
    ELSE <<>>

\* /districts/{year}
RawDistricts(year, v) ==
    IF year = 1994 THEN << [key |-> "1994pnw", year |-> 1994, v |-> v] >> ELSE <<>>

\* ------------------------------------------- the conditional fetch client
RawPayload(endpoint, v) ==
    LET kind == endpoint[1]
        arg == endpoint[2]
    IN  IF kind = "teams" THEN RawTeams(arg, v)
        ELSE IF kind = "events" THEN RawEvents(arg, v)
        ELSE IF kind = "event_teams" THEN RawEventTeams(arg, v)
        ELSE IF kind = "matches" THEN RawMatches(arg, v)
        ELSE IF kind = "rankings" THEN RawRankings(arg, v)
        ELSE IF kind = "alliances" THEN RawAlliances(arg, v)
        ELSE IF kind = "districts" THEN RawDistricts(arg, v)
        ELSE <<>>

NotModified == [hit |-> TRUE]

\* A client that never attaches If-None-Match.
get_unconditional(up, endpoint, etag) ==
    [hit |-> FALSE, data |-> RawPayload(endpoint, up[endpoint]),
     etag |-> up[endpoint]]

\* TBAService._get: status 304 gives None, otherwise (json, ETag header).
\* Upstream answers 304 exactly when If-None-Match carries its current token.
get(up, endpoint, etag) ==
    IF etag # NoEtag /\ etag = up[endpoint]
    THEN NotModified
    ELSE [hit |-> FALSE, data |-> RawPayload(endpoint, up[endpoint]),
          etag |-> up[endpoint]]

\* A reserved-range test that finds no number reserved.
is_reserved_never(team_number) == FALSE

is_reserved(team_number) == team_number >= reserved_lo /\ team_number <= reserved_hi

\* str.extract(r"^frc(\d+)$", 1).cast(pl.Int32): the number of the key, or
\* null when the pattern does not match.
extract_team_number(team_key) ==
    IF team_key < Unmatched THEN team_key ELSE NoTeam

\* The mask ~(...).is_between(9970, 9999) under DataFrame.filter: a row is
\* kept when the mask is true, and dropped when it is false or null.
not_reserved(team_key) ==
    /\ extract_team_number(team_key) # NoTeam
    /\ ~is_reserved(extract_team_number(team_key))

\* TBAService.get_teams
get_teams(up, page, etag) ==
    LET response == get(up, Endpoint("teams", page), etag)
    IN  IF response.hit THEN NotModified
        ELSE [hit |-> FALSE,
              teams |-> SelectSeq(response.data,
                                  LAMBDA r : ~is_reserved(r.team_number)),
              etag |-> response.etag]

\* TBAService.get_districts, as tasks/tba/sync_districts.py uses it: None on
\* 304, otherwise the year's districts and the token.
get_districts(up, year, etag) ==
    LET response == get(up, Endpoint("districts", year), etag)
    IN  IF response.hit THEN NotModified
        ELSE [hit |-> FALSE, districts |-> response.data, etag |-> response.etag]

RECURSIVE Unique(_)
\* DataFrame.unique: one row of each value.
Unique(rows) ==
    IF rows = <<>> THEN <<>>
    ELSE <<Head(rows)>>
         \o Unique(SelectSeq(Tail(rows), LAMBDA r : r # Head(rows)))

\* A placeholder set that names the demo type alone.
placeholder_event_types_demo == {99}

placeholder_event_types == {0 - 1, 7, 99, 100}

\* TBAService.get_events, from the parsed response on: the events whose
\* type is no placeholder, and the districts of those events.
events_frames(data) ==
    LET kept == SelectSeq(data, LAMBDA r : r.event_type \notin placeholder_event_types)
        with_district == SelectSeq(kept, LAMBDA r : r.district # None)
    IN  [events |-> [i \in DOMAIN kept |->
                       [key |-> kept[i].key,
                        district_key |-> kept[i].district,
                        event_type |-> kept[i].event_type,
                        year |-> kept[i].year,
                        start_date |-> kept[i].start_date,
                        end_date |-> kept[i].end_date,
                        timezone |-> kept[i].timezone,
                        v |-> kept[i].v]],
         event_districts |->
             Unique([i \in DOMAIN with_district |->
                       [key |-> with_district[i].district,
                        year |-> with_district[i].year,
                        v |-> with_district[i].v]])]

\* TBAService.get_events
get_events(up, year, etag) ==
    LET response == get(up, Endpoint("events", year), etag)
    IN  IF response.hit THEN NotModified
        ELSE [hit |-> FALSE,
              events |-> events_frames(response.data).events,
              event_districts |-> events_frames(response.data).event_districts,
              etag |-> response.etag]

\* TBAService.get_event_teams
get_event_teams(up, event_key, etag) ==
    LET response == get(up, Endpoint("event_teams", event_key), etag)
        kept == SelectSeq(response.data, not_reserved)
    IN  IF response.hit THEN NotModified
        ELSE [hit |-> FALSE,
              event_teams |-> [i \in DOMAIN kept |->
                                 [event_key |-> event_key, team_key |-> kept[i]]],
              etag |-> response.etag]

RECURSIVE Explode(_)
\* explode(list column): one row for each element of each row's list, by
\* the parent row and the element's 1-based position.
Explode(rows) ==
    IF rows = <<>> THEN <<>>
    ELSE [i \in DOMAIN Head(rows).list |-> [parent |-> Head(rows), pos |-> i]]
         \o Explode(Tail(rows))

\* TBAService.get_matches
get_matches(up, event_key, etag) ==
    LET response == get(up, Endpoint("matches", event_key), etag)
        data == response.data
        side(color) ==
            [i \in DOMAIN data |->
                [match_key |-> data[i].key, event_key |-> data[i].event_key,
                 alliance_color |-> color,
                 list |-> IF color = "red" THEN data[i].red ELSE data[i].blue,
                 v |-> data[i].v]]
        alliances_with_teams == side("red") \o side("blue")
        pairs == Explode(alliances_with_teams)
        exploded ==
            [k \in DOMAIN pairs |->
                [match_key |-> pairs[k].parent.match_key,
                 alliance_color |-> pairs[k].parent.alliance_color,
                 team_key |-> pairs[k].parent.list[pairs[k].pos],
                 event_key |-> pairs[k].parent.event_key,
                 v |-> pairs[k].parent.v]]
    IN  IF response.hit THEN NotModified
        ELSE [hit |-> FALSE,
              matches |-> [i \in DOMAIN data |->
                             [key |-> data[i].key, event_key |-> data[i].event_key,
                              v |-> data[i].v]],
              match_alliances |->
                  [i \in DOMAIN alliances_with_teams |->
                     [match_key |-> alliances_with_teams[i].match_key,
                      alliance_color |-> alliances_with_teams[i].alliance_color,
                      v |-> alliances_with_teams[i].v]],
              match_alliance_teams |->
                  SelectSeq(exploded, LAMBDA r : not_reserved(r.team_key)),
              etag |-> response.etag]

\* TBAService.get_rankings
get_rankings(up, event_key, etag) ==
    LET response == get(up, Endpoint("rankings", event_key), etag)
        kept == SelectSeq(response.data.rankings, not_reserved)
    IN  IF response.hit THEN NotModified
        ELSE [hit |-> FALSE,
              rankings |-> [i \in DOMAIN kept |->
                              [event_key |-> event_key, team_key |-> kept[i],
                               v |-> response.data.v]],
              ranking_event_infos |-> << [event_key |-> event_key,
                                          v |-> response.data.v] >>,
              etag |-> response.etag]

\* An alliance-team frame whose pick_order is counted after the reserved
\* teams have gone.
alliance_teams_renumbered(event_key, data) ==
    LET raw == [i \in DOMAIN data |->
                  [event_key |-> event_key, name |-> data[i].name,
                   list |-> data[i].picks]]
        pairs == Explode(raw)
        exploded ==
            [k \in DOMAIN pairs |->
                [event_key |-> pairs[k].parent.event_key,
                 alliance_name |-> pairs[k].parent.name,
                 team_key |-> pairs[k].parent.list[pairs[k].pos],
                 pick_order |->
                     Cardinality({q \in 1..pairs[k].pos :
                                    not_reserved(pairs[k].parent.list[q])})]]
    IN  SelectSeq(exploded, LAMBDA r : not_reserved(r.team_key))

\* TBAService.get_alliances, the alliance_teams_df: event_key, the name as
\* alliance_name and the picks; pick_order numbers each list from 1;
\* both are exploded together, and the rows of reserved teams dropped.
alliance_teams_frame(event_key, data) ==
    LET raw == [i \in DOMAIN data |->
                  [event_key |-> event_key, name |-> data[i].name,
                   list |-> data[i].picks]]
        pairs == Explode(raw)
        exploded ==
            [k \in DOMAIN pairs |->
                [event_key |-> pairs[k].parent.event_key,
                 alliance_name |-> pairs[k].parent.name,
                 team_key |-> pairs[k].parent.list[pairs[k].pos],
                 pick_order |-> pairs[k].pos]]
    IN  SelectSeq(exploded, LAMBDA r : not_reserved(r.team_key))

\* TBAService.get_alliances
get_alliances(up, event_key, etag) ==
    LET response == get(up, Endpoint("alliances", event_key), etag)
        data == response.data
    IN  IF response.hit THEN NotModified
        ELSE [hit |-> FALSE,
              alliances |-> [i \in DOMAIN data |->
                               [event_key |-> event_key, name |-> data[i].name,
                                backup_in |-> data[i].backup_in,
                                backup_out |-> data[i].backup_out,
                                v |-> data[i].v]],
              alliance_teams |-> alliance_teams_frame(event_key, data),
              etag |-> response.etag]

\* ------------------------------------------------------ batch accumulator
\* BatchAccumulator.__init__
NewAccumulator == [data |-> <<>>, etags |-> <<>>]

\* An add_data that appends empty frames as well.
add_data_any(acc, key, df) ==
    IF key \in DOMAIN acc.data
    THEN [acc EXCEPT !.data[key] = Append(@, df)]
    ELSE [acc EXCEPT !.data = (key :> <<df>>) @@ @]

\* BatchAccumulator.add_data
add_data(acc, key, df) ==
    IF df = <<>> THEN acc
    ELSE IF key \in DOMAIN acc.data
         THEN [acc EXCEPT !.data[key] = Append(@, df)]
         ELSE [acc EXCEPT !.data = (key :> <<df>>) @@ @]

\* BatchAccumulator.get_data
get_data(acc, key) == IF key \in DOMAIN acc.data THEN acc.data[key] ELSE <<>>

\* A clear_data that leaves the bucket as it is.
clear_data_keeps(a, key) == a

\* BatchAccumulator.clear_data
clear_data(acc, key) ==
    IF key \in DOMAIN acc.data THEN [acc EXCEPT !.data[key] = <<>>] ELSE acc

\* An add_etag that drops the token.
add_etag_drops(acc, endpoint, etag) == acc

\* BatchAccumulator.add_etag
add_etag(acc, endpoint, etag) ==
    [acc EXCEPT !.etags = Append(@, [endpoint |-> endpoint, etag |-> etag])]

\* BatchAccumulator.get_etags
get_etags(acc) == acc.etags

\* BatchAccumulator.has_etags
has_etags(acc) == acc.etags # <<>>

\* A clear_etags that leaves the pending validator updates in place.
clear_etags_keeps(acc) == acc

\* BatchAccumulator.clear_etags
clear_etags(acc) == [acc EXCEPT !.etags = <<>>]

\* The attribute the teams, matches, rankings and alliances orchestrators
\* read: the pending validator updates.
etag_updates(acc) == acc.etags

\* A flush rule without the final index.
should_flush_on_multiples(batch, iteration, total) ==
    iteration % batch = 0

\* BatchAccumulator.should_flush
should_flush(batch, iteration, total) ==
    iteration % batch = 0 \/ iteration = total

\* A has_data that reports nothing held.
has_data_never(acc) == FALSE

\* BatchAccumulator.has_data
has_data(acc) == DOMAIN acc.data # {} \/ acc.etags # <<>>

\* ------------------------------------------------------------ retry policy
\* TBAService._get and DBService.upsert are wrapped in
\* retry(stop_after_attempt(3), wait_exponential, retry_if_exception_type,
\* reraise=True).  What an attempt meets is its outcome.  At the fetch site:
\* "200", "304", "4xx" and "5xx" (raise_for_status raises
\* httpx.HTTPStatusError for both), "network" (httpx.TransportError) and
\* "decode" (req.json() raises ValueError).  At the upsert site: "ok",
\* "operational" (OperationalError), "interface" (InterfaceError),
\* "integrity" (IntegrityError: a constraint is violated) and "programming"
\* (ProgrammingError: the frame does not match the schema).
stop_after_attempt == 3

\* sleep(0.5) in pipeline/tasks, sleep(1.5) in tasks/tba sync_teams and
\* sync_districts, in tenths of a second.
request_delay == 5
tba_request_delay == 15

FetchOutcomes == {"200", "304", "4xx", "5xx", "network", "decode"}
UpsertOutcomes == {"ok", "operational", "interface", "integrity", "programming"}

Returns(outcome) == outcome \in {"200", "304", "ok"}



\* An upsert that retries every error of the store.
retry_if_exception_type_any(site, outcome) ==
    IF site = "fetch" THEN outcome \in {"4xx", "5xx", "network"}
    ELSE ~Returns(outcome)

\* A policy that retries nothing.
retry_if_exception_type_never(site, outcome) == FALSE

\* retry_if_exception_type: httpx.HTTPError at the fetch site, of which
\* HTTPStatusError and TransportError are subclasses; OperationalError and
\* InterfaceError at the upsert site.
retry_if_exception_type(site, outcome) ==
    IF site = "fetch" THEN outcome \in {"4xx", "5xx", "network"}
    ELSE outcome \in {"operational", "interface"}

RECURSIVE retrying(_, _, _)
\* The retry loop of one call: outcomes[i] is what attempt i meets, tries the
\* attempts made so far.  A return ends it; an exception the predicate
\* accepts is retried while attempts are left; any other, and the last, is
\* re-raised.
retrying(site, outcomes, tries) ==
    LET outcome == outcomes[tries + 1]
        ended(status) ==
            [site |-> site, outcomes |-> outcomes, tries |-> tries + 1,
             outcome |-> outcome, status |-> status]
    IN  IF Returns(outcome) THEN ended("returned")
        ELSE IF retry_if_exception_type(site, outcome)
                /\ tries + 1 < stop_after_attempt
             THEN retrying(site, outcomes, tries + 1)
             ELSE ended("raised")

\* A call whose every attempt meets the same outcome.
Always(outcome) == [i \in 1..stop_after_attempt |-> outcome]

\* ----------------------------------------------------------- upsert engine
Tables ==
    {"teams", "districts", "event_districts", "events", "event_teams", "matches",
     "match_alliances", "match_alliance_teams", "rankings", "ranking_event_infos",
     "alliances", "alliance_teams", "etags"}

EmptyDB == [t \in Tables |-> {}]

Project(row, cols) == [c \in cols |-> row[c]]

team_keys_of(db) == {t.key : t \in db.teams}

\* The foreign keys the table models declare, as the store enforces them
\* when a statement inserts or updates row r of table_name.
ForeignKeysHold(db, table_name, r) ==
    CASE table_name = "events" ->
            r.district_key = None
            \/ \E d \in db.event_districts : d.key = r.district_key
      [] table_name = "matches" ->
            \E e \in db.events : e.key = r.event_key
      [] table_name = "match_alliances" ->
            \E m \in db.matches : m.key = r.match_key
      [] table_name = "match_alliance_teams" ->
            /\ \E m \in db.matches : m.key = r.match_key
            /\ r.team_key \in team_keys_of(db)
            /\ \E e \in db.events : e.key = r.event_key
            /\ \E a \in db.match_alliances :
                  a.match_key = r.match_key /\ a.alliance_color = r.alliance_color
      [] table_name = "rankings" ->
            /\ \E e \in db.events : e.key = r.event_key
            /\ r.team_key \in team_keys_of(db)
      [] table_name = "ranking_event_infos" ->
            \E e \in db.events : e.key = r.event_key
      [] table_name = "alliances" ->
            /\ \E e \in db.events : e.key = r.event_key
            /\ r.backup_in = NoTeam \/ r.backup_in \in team_keys_of(db)
            /\ r.backup_out = NoTeam \/ r.backup_out \in team_keys_of(db)
      [] table_name = "alliance_teams" ->
            /\ \E a \in db.alliances :
                  a.event_key = r.event_key /\ a.name = r.alliance_name
            /\ \E p \in db.event_teams :
                  p.event_key = r.event_key /\ p.team_key = r.team_key
      [] OTHER -> TRUE

\* INSERT ... ON CONFLICT DO NOTHING whatever the frame's columns.
Merge_do_nothing(rows, df, conflict_keys) ==
    rows \cup {n \in Range(df) :
                 \A old \in rows :
                    Project(n, conflict_keys) # Project(old, conflict_keys)}

\* DELETE the rows of the frame's conflict keys, then INSERT the frame.
Merge_replace(rows, df, conflict_keys) ==
    {old \in rows : \A n \in Range(df) :
                       Project(n, conflict_keys) # Project(old, conflict_keys)}
    \cup Range(df)

\* INSERT ... ON CONFLICT (conflict_keys): DO UPDATE SET the frame's other
\* columns, or DO NOTHING when the frame has no other column.
Merge(rows, df, conflict_keys) ==
    LET update_cols == DOMAIN df[1] \ conflict_keys
        incoming == Range(df)
        hit(old) == {n \in incoming :
                        Project(n, conflict_keys) = Project(old, conflict_keys)}
        updated(old) ==
            IF hit(old) = {} \/ update_cols = {} THEN old
            ELSE LET n == CHOOSE n \in hit(old) : TRUE
                 IN  [c \in DOMAIN old |-> IF c \in update_cols THEN n[c] ELSE old[c]]
        fresh == {n \in incoming :
                    \A old \in rows :
                        Project(n, conflict_keys) # Project(old, conflict_keys)}
    IN  {updated(old) : old \in rows} \cup fresh

\* A plain INSERT: a row whose conflict key is already stored is refused.
upsert_insert_only(db, df, table_name, conflict_keys) ==
    IF df = <<>> THEN [ok |-> TRUE, db |-> db]
    ELSE IF \E i \in DOMAIN df : \E old \in db[table_name] :
               Project(df[i], conflict_keys) = Project(old, conflict_keys)
         THEN [ok |-> FALSE, db |-> db]
         ELSE [ok |-> TRUE,
               db |-> [db EXCEPT ![table_name] = @ \cup Range(df)]]

\* DBService.upsert, one session: the statement commits, or an error of the
\* store rolls it back and is raised.  ON CONFLICT DO UPDATE refuses a frame
\* that holds one conflict key twice.
upsert(db, df, table_name, conflict_keys) ==
    IF df = <<>> THEN [ok |-> TRUE, db |-> db]
    ELSE LET merged == [db EXCEPT ![table_name] = Merge(@, df, conflict_keys)]
             twice == \E i, j \in DOMAIN df :
                         /\ i # j
                         /\ Project(df[i], conflict_keys) = Project(df[j], conflict_keys)
             updating == DOMAIN df[1] \ conflict_keys # {}
         IN  IF (updating /\ twice)
                \/ \E i \in DOMAIN df : ~ForeignKeysHold(merged, table_name, df[i])
             THEN [ok |-> FALSE, db |-> db]
             ELSE [ok |-> TRUE, db |-> merged]

\* DBService.get_etag
get_etag(db, endpoint) ==
    IF \E r \in db.etags : r.endpoint = endpoint
    THEN (CHOOSE r \in db.etags : r.endpoint = endpoint).etag
    ELSE NoEtag

\* The bulk lookup the orchestrators call: every token of one endpoint
\* template, by endpoint identifier.
bulk_get_etags(db, kind) == {r \in db.etags : r.endpoint[1] = kind}

\* A lookup that finds no token.
lookup_none(etags, endpoint) == NoEtag

\* etags.get(etag_key) on the bulk lookup's result
lookup(etags, endpoint) ==
    IF \E r \in etags : r.endpoint = endpoint
    THEN (CHOOSE r \in etags : r.endpoint = endpoint).etag
    ELSE NoEtag

\* DBService.get_team_keys
get_team_keys(db) == team_keys_of(db)

\* ---------------------------------------------------- sync scope resolver
TzOffset(timezone) == IF timezone = <<>> THEN 0 ELSE timezone[1]

\* date +/- timedelta moves a date by the timedelta's whole days.
WholeDays(hours) == hours \div 24

\* datetime.now(tz).date()
LocalDate(now, timezone) == (now + TzOffset(timezone)) \div 24

\* datetime.now().year, on a calendar of 365-day years with day 0 the first
\* day of 1994.
YearOf(day) == 1994 + (day \div 365)
CurrentYear(now) == YearOf(now \div 24)

\* An active test that reads the clock in UTC for every event.
is_event_active_utc(event, clock) ==
    /\ event.start_date - WholeDays(buffer_hours) <= clock \div 24
    /\ clock \div 24 <= event.end_date + WholeDays(buffer_hours)

\* An active test that compares instants: the buffer's hours count.
is_event_active_hours(event, clock) ==
    LET local == clock + TzOffset(event.timezone)
    IN  /\ event.start_date * 24 - buffer_hours <= local
        /\ local <= event.end_date * 24 + buffer_hours

\* DBService._is_event_active
is_event_active(event, clock) ==
    LET now_in_event_tz == LocalDate(clock, event.timezone)
        event_start_with_buffer == event.start_date - WholeDays(buffer_hours)
        event_end_with_buffer == event.end_date + WholeDays(buffer_hours)
    IN  /\ event_start_with_buffer <= now_in_event_tz
        /\ now_in_event_tz <= event_end_with_buffer

RECURSIVE OrderByStartDateDesc(_)
\* ORDER BY start_date DESC
OrderByStartDateDesc(events) ==
    IF events = {} THEN <<>>
    ELSE LET first == CHOOSE e \in events :
                         \A o \in events : e.start_date >= o.start_date
         IN  <<first>> \o OrderByStartDateDesc(events \ {first})

RECURSIVE OrderByStartDate(_)
\* ORDER BY start_date
OrderByStartDate(events) ==
    IF events = {} THEN <<>>
    ELSE LET first == CHOOSE e \in events :
                         \A o \in events : e.start_date <= o.start_date
         IN  <<first>> \o OrderByStartDate(events \ {first})

\* A resolver whose YEAR tier forgets the year.
get_event_keys_any_year(store_db, st, clock) ==
    LET events ==
            IF st \in {"full", "year"} THEN OrderByStartDate(store_db.events)
            ELSE OrderByStartDate({e \in store_db.events :
                                     e.year = CurrentYear(clock)})
        chosen ==
            IF st = "live"
            THEN SelectSeq(events, LAMBDA e : is_event_active(e, clock))
            ELSE SelectSeq(events, LAMBDA e : ~is_event_active(e, clock))
    IN  [i \in DOMAIN chosen |-> chosen[i].key]

\* A resolver whose FULL tier keeps to the current year.
get_event_keys_this_year(store_db, st, clock) ==
    LET events ==
            OrderByStartDate({e \in store_db.events : e.year = CurrentYear(clock)})
        chosen ==
            IF st = "live"
            THEN SelectSeq(events, LAMBDA e : is_event_active(e, clock))
            ELSE SelectSeq(events, LAMBDA e : ~is_event_active(e, clock))
    IN  [i \in DOMAIN chosen |-> chosen[i].key]

\* DBService.get_event_keys
get_event_keys(store_db, st, clock) ==
    LET events ==
            IF st = "full" THEN OrderByStartDate(store_db.events)
            ELSE OrderByStartDate({e \in store_db.events :
                                     e.year = CurrentYear(clock)})
        chosen ==
            IF st = "live"
            THEN SelectSeq(events, LAMBDA e : is_event_active(e, clock))
            ELSE SelectSeq(events, LAMBDA e : ~is_event_active(e, clock))
    IN  [i \in DOMAIN chosen |-> chosen[i].key]

\* ------------------------------------------------------------------ state
VARIABLES
    now,        \* the clock: hours since day 0 00:00 UTC
    upstream,   \* the provider: endpoint -> current version
    db,         \* the destination store: table name -> set of rows
    flow,       \* the running flow: name, step, attempt
    task,       \* the running orchestrator, or None
    sync_type,  \* its sync_type argument
    batch_size, \* its batch_size argument
    pc,         \* its position: "loop", "flush", "final", "done", "failed"
    attempt,    \* the task run's attempt, 1 + retries so far
    keys,       \* its scope keys: pages, years or event keys
    idx,        \* the number of scope keys processed
    cached,     \* the validator tokens looked up at its start
    valid,      \* valid_team_keys, read at its start
    acc,        \* its BatchAccumulator
    fpos,       \* the position of a flush cycle in its upsert statements
    resp,       \* the last fetch: "304", "200", "error", "invalid" or None
    units,      \* history: the fetch units accumulated, with their frames
    committed,  \* history: the frames whose upsert has committed
    ledger,     \* history: the upserts of each item accumulated in this run
    fetched,    \* history: the endpoints a fetch has answered with a payload
    changes,    \* upstream changes so far
    faults,     \* injected failures so far
    runs,       \* flow invocations so far
    call,       \* the last call of a retried call site: its attempts and end
    done,       \* history: the flow invoked last, and the store it left
    delay,      \* tenths of a second the orchestrator has slept since its last
                \* request; NoDelay before its first
    peer        \* the orchestrator of a flow run in progress beside this one

vars ==
    <<now, upstream, db, flow, task, sync_type, batch_size, pc, attempt, keys, idx,
      cached,
      valid, acc, fpos, resp, units, committed, ledger, fetched, changes, faults,
      runs, call, done, delay, peer>>

store == <<db, units, committed, ledger, fetched>>
env == <<now, upstream, changes>>
run_state == <<batch_size, keys, idx, cached, valid, acc, fpos>>

Idle == [name |-> None, step |-> 0, attempt |-> 0]

\* No call of a retried call site has been made.
NoCall == [site |-> None]

\* No other flow run is in progress.
NoPeer == [name |-> None, task |-> None, keys |-> <<>>]

\* No flow has been invoked.
NoDone == [name |-> None, count |-> 0, db |-> <<>>]

\* The clock values of a behaviour that begins in the 1994 season: day 9
\* 23:00 and day 20 00:00.
Instants == {239, 480}

\* 23:00 on day 10 of 2022: a behaviour that begins here has the history
\* since start_year to fetch, the skipped year among it.
Late == (28 * 365 + 10) * 24 + 23

\* The clock values a behaviour begins at.
Openings == {239, Late}

\* A behaviour begins in the 1994 season or in 2022; the injected failures
\* are spent on the former.
Init ==
    /\ now \in Openings
    /\ upstream = [e \in Endpoints |-> 1]
    /\ db = EmptyDB
    /\ flow = Idle
    /\ task = None
    /\ sync_type = None
    /\ batch_size = BatchSize
    /\ pc = None
    /\ attempt = 0
    /\ keys = <<>>
    /\ idx = 0
    /\ cached = {}
    /\ valid = {}
    /\ acc = NewAccumulator
    /\ fpos = 1
    /\ resp = None
    /\ units = {}
    /\ committed = {}
    /\ ledger = <<>>
    /\ fetched = {}
    /\ changes = 0
    /\ faults = IF now = Late THEN MaxFaults ELSE 0
    /\ runs = 0
    /\ call = NoCall
    /\ done = NoDone
    /\ delay = NoDelay
    /\ peer = NoPeer

\* ------------------------------------------------------------------- flows
\* The orchestrators of tasks/tba that no flow calls: each runs on its own.
Legacy == {"tba_teams", "tba_districts"}

\* The orchestrators that collect into a BatchAccumulator.
Accumulating == {"teams", "events", "matches", "rankings", "alliances"}

\* year_sync: the orchestrators it calls, in order.  It asks each for the
\* inactive events of the current year (event_filter = "inactive",
\* current_year = True), which is the YEAR tier of the scope resolver.
year_steps ==
    << <<"events", "year">>, <<"event_teams", "year">>, <<"matches", "year">>,
       <<"rankings", "year">>, <<"alliances", "year">> >>

\* A full_sync that syncs the events after the event-scoped entity types.
FlowSteps_events_last(name) ==
    IF name = "full" THEN
        << <<"teams", "full">>, <<"event_teams", "full">>, <<"matches", "full">>,
           <<"rankings", "full">>, <<"alliances", "full">>, <<"events", "full">> >>
    ELSE IF name = "live" THEN
        << <<"event_teams", "live">>, <<"matches", "live">>,
           <<"rankings", "live">>, <<"alliances", "live">> >>
    ELSE IF name = "year" THEN year_steps
    ELSE IF name \in Legacy THEN << <<name, None>> >>
    ELSE <<>>

\* A full_sync that syncs the teams after event participation.
FlowSteps_teams_late(name) ==
    IF name = "full" THEN
        << <<"events", "full">>, <<"event_teams", "full">>, <<"teams", "full">>,
           <<"matches", "full">>, <<"rankings", "full">>, <<"alliances", "full">> >>
    ELSE IF name = "live" THEN
        << <<"event_teams", "live">>, <<"matches", "live">>,
           <<"rankings", "live">>, <<"alliances", "live">> >>
    ELSE IF name = "year" THEN year_steps
    ELSE IF name \in Legacy THEN << <<name, None>> >>
    ELSE <<>>

\* full_sync, live_sync and year_sync: the orchestrators they call, in order.
FlowSteps(name) ==
    IF name = "full" THEN
        << <<"teams", "full">>, <<"events", "full">>, <<"event_teams", "full">>,
           <<"matches", "full">>, <<"rankings", "full">>, <<"alliances", "full">> >>
    ELSE IF name = "live" THEN
        << <<"event_teams", "live">>, <<"matches", "live">>,
           <<"rankings", "live">>, <<"alliances", "live">> >>
    ELSE IF name = "year" THEN year_steps
    ELSE IF name \in Legacy THEN << <<name, None>> >>
    ELSE <<>>

\* A task runner that retries a failed orchestrator without end.
Begins_without_end(t) ==
    \/ /\ task = None
       /\ flow.name # None
       /\ flow.step <= Len(FlowSteps(flow.name))
       /\ FlowSteps(flow.name)[flow.step][1] = t
       /\ task' = t
       /\ sync_type' = FlowSteps(flow.name)[flow.step][2]
       /\ attempt' = 1
    \/ /\ task = t
       /\ pc = "failed"
       /\ attempt' = IF attempt <= task_retries THEN attempt + 1 ELSE attempt
       /\ UNCHANGED <<task, sync_type>>

\* An orchestrator begins: called by the flow's next step, or retried after
\* a failed attempt.
Begins(t) ==
    \/ /\ task = None
       /\ flow.name # None
       /\ flow.step <= Len(FlowSteps(flow.name))
       /\ FlowSteps(flow.name)[flow.step][1] = t
       /\ task' = t
       /\ sync_type' = FlowSteps(flow.name)[flow.step][2]
       /\ attempt' = 1
    \/ /\ task = t
       /\ pc = "failed"
       /\ attempt <= task_retries
       /\ attempt' = attempt + 1
       /\ UNCHANGED <<task, sync_type>>

\* --------------------------------------------- accumulating orchestrators
\* sync_teams, sync_events, sync_matches, sync_rankings and sync_alliances
\* share one shape: resolve the scope, fetch key by key into the
\* accumulator, flush when should_flush says so, flush what is left.

\* The data buckets of an orchestrator, in the order a flush upserts them.
Buckets(t) ==
    CASE t = "teams" -> <<"teams">>
      [] t = "events" -> <<"event_districts", "events">>
      [] t = "matches" -> <<"matches", "match_alliances", "match_alliance_teams">>
      [] t = "rankings" -> <<"ranking_event_infos", "rankings">>
      [] t = "alliances" -> <<"alliances", "alliance_teams">>
      [] t = "tba_teams" -> <<"teams">>
      [] t = "tba_districts" -> <<"districts">>

\* The conflict_key each upsert call passes for its table.
ConflictKey(table_name) ==
    CASE table_name \in {"teams", "events", "event_districts", "districts", "matches"} ->
            {"key"}
      [] table_name = "event_teams" -> {"event_key", "team_key"}
      [] table_name = "match_alliances" -> {"match_key", "alliance_color"}
      [] table_name = "match_alliance_teams" ->
            {"match_key", "alliance_color", "team_key"}
      [] table_name = "ranking_event_infos" -> {"event_key"}
      [] table_name = "rankings" -> {"event_key", "team_key"}
      [] table_name = "alliances" -> {"event_key", "name"}
      [] table_name = "alliance_teams" -> {"event_key", "alliance_name", "team_key"}
      [] table_name = "etags" -> {"endpoint"}

\* A prefilter that keeps every row.
filter_nothing(df, valid_team_keys) == df

\* A filter that keeps the valid rows and returns them last first.
filter_valid_reversed(df, valid_team_keys) ==
    LET kept == SelectSeq(df, LAMBDA r : r.team_key \in valid_team_keys)
    IN  [i \in DOMAIN kept |-> kept[Len(kept) + 1 - i]]

\* df.filter(pl.col("team_key").is_in(valid_team_keys))
filter_valid(df, valid_team_keys) ==
    SelectSeq(df, LAMBDA r : r.team_key \in valid_team_keys)

\* A year range that does not leave out the skipped year.
year_range_unskipped(st, current_year) ==
    LET first == IF st = "full" THEN start_year ELSE current_year
    IN  [i \in 1..(current_year - first + 1) |-> first + i - 1]

\* sync_events: the years fetched, and total_years.
year_range(st, current_year) ==
    LET first == IF st = "full" THEN start_year ELSE current_year
        years == [i \in 1..(current_year - first + 1) |-> first + i - 1]
    IN  SelectSeq(years, LAMBDA y : y # skipped_year)

total_years(st, current_year) ==
    current_year - (IF st = "full" THEN start_year ELSE current_year) + 1

\* The scope of an orchestrator and the total its should_flush is given.
Scope(t, st, store_db, clock) ==
    CASE t \in {"teams", "tba_teams"} -> [i \in 1..max_pages |-> i - 1]
      [] t = "events" -> year_range(st, CurrentYear(clock))
      [] t = "tba_districts" -> year_range("full", CurrentYear(clock))
      [] OTHER -> get_event_keys(store_db, st, clock)

Total(t, st, scope, clock) ==
    CASE t = "teams" -> max_pages
      [] t = "events" -> total_years(st, CurrentYear(clock))
      [] OTHER -> Len(scope)

\* tba.get_<entity>(key, etag)
Fetch(t, up, key, etag) ==
    CASE t \in {"teams", "tba_teams"} -> get_teams(up, key, etag)
      [] t = "tba_districts" -> get_districts(up, key, etag)
      [] t = "events" -> get_events(up, key, etag)
      [] t = "event_teams" -> get_event_teams(up, key, etag)
      [] t = "matches" -> get_matches(up, key, etag)
      [] t = "rankings" -> get_rankings(up, key, etag)
      [] t = "alliances" -> get_alliances(up, key, etag)

\* The frame an orchestrator hands to add_data for a bucket: what the
\* normalizer returned, child rows filtered against valid_team_keys.
Frame(t, bucket, result, valid_team_keys) ==
    IF bucket \in {"match_alliance_teams", "rankings", "alliance_teams", "event_teams"}
    THEN filter_valid(result[bucket], valid_team_keys)
    ELSE result[bucket]

RECURSIVE AddAll(_, _, _, _, _)
AddAll(a, t, buckets, result, valid_team_keys) ==
    IF buckets = <<>> THEN a
    ELSE AddAll(add_data(a, Head(buckets),
                         Frame(t, Head(buckets), result, valid_team_keys)),
                t, Tail(buckets), result, valid_team_keys)

\* A loop body that lets a 304 through to add_etag.
AccumulatedOnHit(t, a, result, etag_key, valid_team_keys) ==
    IF result.hit THEN add_etag(a, etag_key, NoEtag)
    ELSE LET added == AddAll(a, t, Buckets(t), result, valid_team_keys)
         IN  IF result.etag # NoEtag
             THEN add_etag(added, etag_key, result.etag)
             ELSE added

\* The loop body past the fetch: a 304 leaves the accumulator alone, a
\* payload adds its frames and, when the response carried one, its token.
Accumulated(t, a, result, etag_key, valid_team_keys) ==
    IF result.hit THEN a
    ELSE LET added == AddAll(a, t, Buckets(t), result, valid_team_keys)
         IN  IF result.etag # NoEtag
             THEN add_etag(added, etag_key, result.etag)
             ELSE added

\* History: the non-empty frames of one fetch unit.
UnitFrames(t, result, valid_team_keys) ==
    { <<b, Frame(t, b, result, valid_team_keys)>> : b \in Range(Buckets(t)) }
    \ { <<b, <<>>>> : b \in Range(Buckets(t)) }

Counted(items) == [i \in items |-> 0]

Bump(led, items) ==
    [i \in DOMAIN led |-> IF i \in items THEN led[i] + 1 ELSE led[i]]

\* After the loop: the final flush when has_data(), else the task returns.
AfterLoop(a) == IF has_data(a) THEN "final" ELSE "done"

\* The start of an accumulating orchestrator.
Start(t) ==
    /\ Begins(t)
    /\ keys' = Scope(t, sync_type', db, now)
    /\ cached' = bulk_get_etags(db, t)
    /\ valid' = IF t \in {"teams", "events"} THEN {} ELSE get_team_keys(db)
    /\ acc' = NewAccumulator
    /\ idx' = 0
    /\ fpos' = 1
    /\ resp' = None
    /\ call' = NoCall
    /\ ledger' = <<>>
    /\ pc' = IF keys' = <<>> THEN "done" ELSE "loop"
    /\ delay' = NoDelay
    /\ UNCHANGED <<env, db, units, committed, fetched, flow, done, batch_size, faults,
                   runs, peer>>

\* One iteration of the loop: the conditional fetch of the next scope key,
\* then skip (304), stop (teams: an empty page) or accumulate.
Iterate(t) ==
    /\ task = t
    /\ pc = "loop"
    /\ LET key == keys[idx + 1]
           etag_key == Endpoint(t, key)
           result == Fetch(t, upstream, key, lookup(cached, etag_key))
           total == Total(t, sync_type, keys, now)
           more == IF idx + 1 < Len(keys) THEN "loop" ELSE AfterLoop(acc')
       IN  \/ /\ result.hit
              /\ resp' = "304"
              /\ call' = NoCall
              /\ idx' = idx + 1
              /\ acc' = Accumulated(t, acc, result, etag_key, valid)
              /\ fpos' = 1
              /\ pc' = more
              /\ delay' = request_delay
              /\ UNCHANGED <<units, ledger, fetched>>
           \/ /\ ~result.hit
              /\ t = "teams"
              /\ result.teams = <<>>
              /\ resp' = "200"
              /\ call' = NoCall
              /\ idx' = idx
              /\ acc' = acc
              /\ fpos' = 1
              /\ pc' = AfterLoop(acc)
              /\ delay' = 0
              /\ fetched' = fetched \cup {etag_key}
              /\ UNCHANGED <<units, ledger>>
           \/ /\ ~result.hit
              /\ t = "teams" => result.teams # <<>>
              /\ resp' = "200"
              /\ call' = NoCall
              /\ idx' = idx + 1
              /\ fetched' = fetched \cup {etag_key}
              /\ acc' = Accumulated(t, acc, result, etag_key, valid)
              /\ units' = units \cup
                    { [endpoint |-> etag_key, etag |-> result.etag,
                       frames |-> UnitFrames(t, result, valid)] }
              /\ ledger' = Counted(UnitFrames(t, result, valid)
                                   \cup IF result.etag = NoEtag THEN {}
                                        ELSE {<<"etags", <<[endpoint |-> etag_key,
                                                            etag |-> result.etag]>>>>})
                           @@ ledger
              /\ IF should_flush(batch_size, idx + 1, total)
                 THEN pc' = "flush" /\ fpos' = 1 /\ delay' = 0
                 ELSE pc' = more /\ fpos' = 1 /\ delay' = request_delay
    /\ UNCHANGED <<env, db, committed, flow, done, task, sync_type, batch_size, attempt,
                   keys, cached, valid, faults, runs, peer>>

\* A flush cycle that writes the validator cache first.
StatementsTokensFirst(t) == <<"etags">> \o Buckets(t)

\* The tables a flush cycle writes, in its order: the data buckets, then the
\* validator cache.
Statements(t) == Buckets(t) \o <<"etags">>

\* The guard of a flush cycle's statement: the bucket holds frames, or
\* validator updates are pending (in tasks/tba/sync_districts, under the
\* guard of the districts).
HasPending(t, a, table_name) ==
    IF table_name = "etags"
    THEN /\ a.etags # <<>>
         /\ t = "tba_districts" => get_data(a, "districts") # <<>>
    ELSE get_data(a, table_name) # <<>>

\* The statements a flush cycle has yet to make, by position.
Pending(t, a, from) ==
    { p \in from..Len(Statements(t)) : HasPending(t, a, Statements(t)[p]) }

\* The next statement of a flush cycle: the upsert of the next data bucket
\* that holds frames, or of the pending validator updates.  An in-loop flush
\* clears what it wrote; the final flush does not.  A cycle with nothing to
\* write falls through.
Flush(t) ==
    /\ task = t
    /\ pc \in {"flush", "final"}
    /\ LET in_loop == pc = "flush"
           back == IF ~in_loop THEN "done"
                   ELSE IF idx < Len(keys) THEN "loop" ELSE AfterLoop(acc')
           todo == Pending(t, acc, fpos)
           p == CHOOSE q \in todo : \A o \in todo : q <= o
           b == Statements(t)[p]
           last == Pending(t, acc, p + 1) = {}
       IN  IF todo = {}
           THEN /\ acc' = acc
                /\ pc' = back
                /\ fpos' = 1
                /\ call' = NoCall
                /\ UNCHANGED <<db, committed, ledger>>
           ELSE IF b # "etags"
           THEN LET frames == get_data(acc, b)
                    res == upsert(db, Concat(frames), b, ConflictKey(b))
                    made == retrying("upsert",
                                     Always(IF res.ok THEN "ok" ELSE "integrity"), 0)
                IN  /\ call' = made
                    /\ IF made.status = "returned"
                       THEN /\ db' = res.db
                            /\ committed' =
                                  committed \cup {<<b, f>> : f \in Range(frames)}
                            /\ ledger' = Bump(ledger, {<<b, f>> : f \in Range(frames)})
                            /\ acc' = IF in_loop THEN clear_data(acc, b) ELSE acc
                            /\ fpos' = IF last THEN 1 ELSE p + 1
                            /\ pc' = IF last THEN back ELSE pc
                       ELSE /\ pc' = "failed"
                            /\ UNCHANGED <<db, acc, committed, ledger, fpos>>
           ELSE LET pending == IF t = "events" THEN get_etags(acc)
                               ELSE IF t \in Legacy THEN acc.etags
                               ELSE etag_updates(acc)
                    res == upsert(db, pending, "etags", ConflictKey("etags"))
                IN  /\ call' = retrying("upsert", Always("ok"), 0)
                    /\ db' = res.db
                    /\ ledger' = Bump(ledger, {<<"etags", <<e>>>> :
                                                 e \in Range(pending)})
                    /\ acc' = IF in_loop THEN clear_etags(acc) ELSE acc
                    /\ fpos' = IF last THEN 1 ELSE p + 1
                    /\ pc' = IF last THEN back ELSE pc
                    /\ UNCHANGED committed
    /\ resp' = None
    /\ delay' = IF pc = "flush" /\ pc' \notin {"flush", "failed"}
                THEN request_delay ELSE delay
    /\ UNCHANGED <<env, units, fetched, flow, done, task, sync_type, batch_size,
                   attempt, keys, idx, cached, valid, faults, runs, peer>>

\* The endpoint template of an orchestrator.
Template(t) ==
    CASE t = "tba_teams" -> "teams"
      [] t = "tba_districts" -> "districts"
      [] OTHER -> t

\* The token an orchestrator sends with the request of a key: the one its
\* bulk lookup found at the start, or in tasks/tba the one stored now.
SentEtag(t, key) ==
    IF t \in {"tba_teams", "tba_districts"}
    THEN get_etag(db, Endpoint(Template(t), key))
    ELSE lookup(cached, Endpoint(Template(t), key))

\* A client that hands the response's token to the store before it
\* validates the payload.
Raises_token_first(t) ==
    /\ task = t
    /\ faults < MaxFaults
    /\ pc = "loop"
    /\ LET etag_key == Endpoint(Template(t), keys[idx + 1])
           result == Fetch(t, upstream, keys[idx + 1], SentEtag(t, keys[idx + 1]))
       IN  /\ ~result.hit
           /\ db' = upsert(db, <<[endpoint |-> etag_key, etag |-> result.etag]>>,
                           "etags", ConflictKey("etags")).db
    /\ resp' = "invalid"
    /\ call' = retrying("fetch", Always("200"), 0)
    /\ pc' = "failed"
    /\ faults' = faults + 1
    /\ UNCHANGED <<env, units, committed, ledger, fetched, flow, done, task,
                   sync_type, attempt, run_state, runs, delay, peer>>

\* An exception ends the attempt.  In the loop: the request of the next key
\* fails every attempt the client makes (resp "error"), or it returns a
\* payload that the normalizer's validation rejects (resp "invalid").  In a
\* flush cycle: the store is unreachable at every attempt of the upsert it
\* is about to make.
Raises(t) ==
    /\ task = t
    /\ faults < MaxFaults
    /\ \/ /\ pc = "loop"
          /\ \/ /\ resp' = "error"
                /\ call' = retrying("fetch", Always("network"), 0)
             \/ /\ ~Fetch(t, upstream, keys[idx + 1], SentEtag(t, keys[idx + 1])).hit
                /\ resp' = "invalid"
                /\ call' = retrying("fetch", Always("200"), 0)
       \/ /\ pc \in {"flush", "final"}
          /\ Pending(t, acc, fpos) # {}
          /\ resp' = None
          /\ call' = retrying("upsert", Always("operational"), 0)
    /\ pc' = "failed"
    /\ faults' = faults + 1
    /\ UNCHANGED <<env, store, flow, done, task, sync_type, attempt, run_state, runs,
                   delay, peer>>

\* --------------------------------------------------------- sync_event_teams
RECURSIVE upsert_many(_, _)
\* The statements of one session: all of them commit, or none does.
upsert_many(store_db, upserts) ==
    IF upserts = <<>> THEN [ok |-> TRUE, db |-> store_db]
    ELSE LET first == upsert(store_db, Head(upserts)[1], Head(upserts)[2],
                             Head(upserts)[3])
             rest == upsert_many(first.db, Tail(upserts))
         IN  IF first.ok /\ rest.ok THEN rest ELSE [ok |-> FALSE, db |-> store_db]

sync_event_teams_start ==
    /\ Begins("event_teams")
    /\ keys' = get_event_keys(db, sync_type', now)
    /\ cached' = bulk_get_etags(db, "event_teams")
    /\ valid' = get_team_keys(db)
    /\ acc' = NewAccumulator
    /\ idx' = 0
    /\ fpos' = 1
    /\ resp' = None
    /\ call' = NoCall
    /\ ledger' = <<>>
    /\ pc' = IF keys' = <<>> THEN "done" ELSE "loop"
    /\ delay' = NoDelay
    /\ UNCHANGED <<env, db, units, committed, fetched, flow, done, batch_size, faults,
                   runs, peer>>

sync_event_teams_iterate ==
    /\ task = "event_teams"
    /\ pc = "loop"
    /\ LET event_key == keys[idx + 1]
           etag_key == Endpoint("event_teams", event_key)
           result == get_event_teams(upstream, event_key, lookup(cached, etag_key))
           event_teams_df == filter_valid(result.event_teams, valid)
           etag_df == <<[endpoint |-> etag_key, etag |-> result.etag]>>
           upserts ==
               (IF event_teams_df # <<>>
                THEN << <<event_teams_df, "event_teams", {"event_key", "team_key"}>> >>
                ELSE <<>>)
               \o (IF result.etag # NoEtag
                   THEN << <<etag_df, "etags", {"endpoint"}>> >>
                   ELSE <<>>)
           res == upsert_many(db, upserts)
           items == {<<u[2], u[1]>> : u \in Range(upserts)}
           more == IF idx + 1 < Len(keys) THEN "loop" ELSE "done"
       IN  \/ /\ result.hit
              /\ resp' = "304"
              /\ call' = NoCall
              /\ idx' = idx + 1
              /\ pc' = more
              /\ delay' = request_delay
              /\ UNCHANGED store
           \/ /\ ~result.hit
              /\ res.ok
              /\ resp' = "200"
              /\ call' = NoCall
              /\ db' = res.db
              /\ fetched' = fetched \cup {etag_key}
              /\ units' = units \cup
                    { [endpoint |-> etag_key, etag |-> result.etag,
                       frames |-> IF event_teams_df = <<>> THEN {}
                                  ELSE {<<"event_teams", event_teams_df>>}] }
              /\ committed' = committed
                    \cup (IF event_teams_df = <<>> THEN {}
                          ELSE {<<"event_teams", event_teams_df>>})
              /\ ledger' = [i \in items |-> 1] @@ ledger
              /\ idx' = idx + 1
              /\ pc' = more
              /\ delay' = request_delay
           \/ /\ ~result.hit
              /\ ~res.ok
              /\ resp' = "200"
              /\ call' = NoCall
              /\ pc' = "failed"
              /\ delay' = 0
              /\ fetched' = fetched \cup {etag_key}
              /\ UNCHANGED <<db, units, committed, ledger, idx>>
    /\ UNCHANGED <<env, flow, done, task, sync_type, batch_size, attempt, keys, cached,
                   valid, acc, fpos, faults, runs, peer>>

\* ------------------------------------ tasks/tba: sync_teams, sync_districts
\* list.append: the frame joins the list, empty or not.
append_frame(a, key, df) ==
    IF key \in DOMAIN a.data
    THEN [a EXCEPT !.data[key] = Append(@, df)]
    ELSE [a EXCEPT !.data = (key :> <<df>>) @@ @]

tba_start(t) ==
    /\ Begins(t)
    /\ keys' = Scope(t, sync_type', db, now)
    /\ cached' = {}
    /\ valid' = {}
    /\ acc' = NewAccumulator
    /\ idx' = 0
    /\ fpos' = 1
    /\ resp' = None
    /\ call' = NoCall
    /\ ledger' = <<>>
    /\ pc' = "loop"
    /\ delay' = NoDelay
    /\ UNCHANGED <<env, db, units, committed, fetched, flow, done, batch_size, faults,
                   runs, peer>>

\* One iteration: the token is read from the store, the frames and tokens
\* collect in lists, and every write waits for the end of the loop.
tba_iterate(t) ==
    /\ task = t
    /\ pc = "loop"
    /\ LET key == keys[idx + 1]
           etag_key == Endpoint(Template(t), key)
           result == Fetch(t, upstream, key, get_etag(db, etag_key))
           b == Buckets(t)[1]
           more == IF idx + 1 < Len(keys) THEN "loop" ELSE "final"
       IN  \/ /\ result.hit
              /\ resp' = "304"
              /\ call' = NoCall
              /\ idx' = idx + 1
              /\ acc' = acc
              /\ pc' = more
              /\ delay' = 0
              /\ UNCHANGED <<units, ledger, fetched>>
           \/ /\ ~result.hit
              /\ t = "tba_teams"
              /\ result.teams = <<>>
              /\ resp' = "200"
              /\ call' = NoCall
              /\ idx' = idx
              /\ acc' = acc
              /\ pc' = "final"
              /\ delay' = 0
              /\ fetched' = fetched \cup {etag_key}
              /\ UNCHANGED <<units, ledger>>
           \/ /\ ~result.hit
              /\ t = "tba_teams" => result.teams # <<>>
              /\ resp' = "200"
              /\ call' = NoCall
              /\ idx' = idx + 1
              /\ fetched' = fetched \cup {etag_key}
              /\ acc' = LET added == append_frame(acc, b, result[b])
                        IN  IF result.etag # NoEtag
                            THEN add_etag(added, etag_key, result.etag)
                            ELSE added
              /\ units' = units \cup
                    { [endpoint |-> etag_key, etag |-> result.etag,
                       frames |-> UnitFrames(t, result, valid)] }
              /\ ledger' = Counted(UnitFrames(t, result, valid)
                                   \cup IF result.etag = NoEtag THEN {}
                                        ELSE {<<"etags", <<[endpoint |-> etag_key,
                                                            etag |-> result.etag]>>>>})
                           @@ ledger
              /\ pc' = more
              /\ delay' = tba_request_delay
    /\ fpos' = 1
    /\ UNCHANGED <<env, db, committed, flow, done, task, sync_type, batch_size, attempt,
                   keys, cached, valid, faults, runs, peer>>

\* ------------------------------------------------------------------- flows
\* History.  A flow is invoked: when the flow invoked last was this one and
\* has returned normally, its record stands; else a new one begins.
Invoked(name) ==
    IF done.name = name /\ done.count > 0 THEN done
    ELSE [name |-> name, count |-> 0, db |-> <<>>]

\* History.  The flow returns normally: one more completed invocation, and
\* the store it leaves.
Completed(d) == [d EXCEPT !.count = IF @ < 2 THEN @ + 1 ELSE @, !.db = db]

\* The scheduler invokes full_sync.
full_sync ==
    /\ flow = Idle
    /\ task = None
    /\ runs < MaxRuns
    /\ flow' = [name |-> "full", step |-> 1, attempt |-> 1]
    /\ done' = Invoked("full")
    /\ runs' = runs + 1
    /\ resp' = None
    /\ call' = NoCall
    /\ UNCHANGED <<env, store, task, sync_type, pc, attempt, run_state, faults, delay,
                   peer>>

\* A live_sync that goes on to its orchestrators whatever the LIVE scope holds.
live_sync_always ==
    /\ flow = Idle
    /\ task = None
    /\ runs < MaxRuns
    /\ flow' = [name |-> "live", step |-> 1, attempt |-> 1]
    /\ done' = Invoked("live")
    /\ runs' = runs + 1
    /\ resp' = None
    /\ call' = NoCall
    /\ UNCHANGED <<env, store, task, sync_type, pc, attempt, run_state, faults, delay,
                   peer>>

\* The scheduler invokes live_sync: it returns at once when no event is
\* active.
live_sync ==
    /\ flow = Idle
    /\ task = None
    /\ runs < MaxRuns
    /\ flow' = IF get_event_keys(db, "live", now) = <<>> THEN Idle
               ELSE [name |-> "live", step |-> 1, attempt |-> 1]
    /\ done' = IF flow' = Idle THEN Completed(Invoked("live")) ELSE Invoked("live")
    /\ runs' = runs + 1
    /\ resp' = None
    /\ call' = NoCall
    /\ UNCHANGED <<env, store, task, sync_type, pc, attempt, run_state, faults, delay,
                   peer>>

\* The scheduler invokes year_sync.
year_sync ==
    /\ flow = Idle
    /\ task = None
    /\ runs < MaxRuns
    /\ flow' = [name |-> "year", step |-> 1, attempt |-> 1]
    /\ done' = Invoked("year")
    /\ runs' = runs + 1
    /\ resp' = None
    /\ call' = NoCall
    /\ UNCHANGED <<env, store, task, sync_type, pc, attempt, run_state, faults, delay,
                   peer>>

\* An orchestrator of tasks/tba is run on its own.
run_task ==
    /\ flow = Idle
    /\ task = None
    /\ runs < MaxRuns
    /\ \E t \in Legacy :
          /\ flow' = [name |-> t, step |-> 1, attempt |-> 1]
          /\ done' = Invoked(t)
    /\ runs' = runs + 1
    /\ resp' = None
    /\ call' = NoCall
    /\ UNCHANGED <<env, store, task, sync_type, pc, attempt, run_state, faults, delay,
                   peer>>

\* The orchestrator returns: the flow goes on to its next step, and ends
\* after its last.
task_returns ==
    /\ task # None
    /\ pc = "done"
    /\ task' = None
    /\ pc' = None
    /\ flow' = IF flow.step = Len(FlowSteps(flow.name)) THEN Idle
               ELSE [flow EXCEPT !.step = @ + 1]
    /\ done' = IF flow' = Idle THEN Completed(done) ELSE done
    /\ resp' = None
    /\ call' = NoCall
    /\ delay' = NoDelay
    /\ UNCHANGED <<env, store, sync_type, attempt, run_state, faults, runs, peer>>

\* A flow run that is one transaction: when it fails, what its orchestrators
\* stored is gone.
flow_fails_undoing ==
    /\ task # None
    /\ pc = "failed"
    /\ attempt > task_retries
    /\ task' = None
    /\ pc' = None
    /\ flow' = IF flow.name \notin Legacy /\ flow.attempt <= flow_retries
               THEN [flow EXCEPT !.step = 1, !.attempt = @ + 1]
               ELSE Idle
    /\ db' = EmptyDB
    /\ resp' = None
    /\ call' = NoCall
    /\ delay' = NoDelay
    /\ UNCHANGED <<env, units, committed, ledger, fetched, done, sync_type, attempt,
                   run_state, faults, runs, peer>>

\* The orchestrator has failed its last attempt: the flow run fails, and is
\* retried from its first step while it has retries left.
flow_fails ==
    /\ task # None
    /\ pc = "failed"
    /\ attempt > task_retries
    /\ task' = None
    /\ pc' = None
    /\ flow' = IF flow.name \notin Legacy /\ flow.attempt <= flow_retries
               THEN [flow EXCEPT !.step = 1, !.attempt = @ + 1]
               ELSE Idle
    /\ UNCHANGED done
    /\ resp' = None
    /\ call' = NoCall
    /\ delay' = NoDelay
    /\ UNCHANGED <<env, store, sync_type, attempt, run_state, faults, runs, peer>>

\* ------------------------------------------------------------- environment
\* Upstream publishes a new version of a resource.
upstream_changes ==
    /\ task = None \/ pc = "failed"
    /\ changes < MaxChanges
    /\ \E e \in Mutable :
          /\ upstream[e] < MaxVer
          /\ upstream' = [upstream EXCEPT ![e] = @ + 1]
    /\ changes' = changes + 1
    /\ resp' = None
    /\ call' = NoCall
    /\ UNCHANGED <<now, store, flow, done, task, sync_type, pc, attempt, run_state,
                   faults, runs, delay, peer>>

\* Time passes.
tick ==
    /\ task = None \/ pc = "failed"
    /\ \E t \in Instants :
          /\ t > now
          /\ now' = t
    /\ resp' = None
    /\ call' = NoCall
    /\ UNCHANGED <<upstream, changes, store, flow, done, task, sync_type, pc, attempt,
                   run_state, faults, runs, delay, peer>>

\* --------------------------------------------------------- the orchestrators
sync_teams == Start("teams") \/ Iterate("teams") \/ Flush("teams") \/ Raises("teams")
sync_events ==
    Start("events") \/ Iterate("events") \/ Flush("events") \/ Raises("events")
sync_event_teams ==
    sync_event_teams_start \/ sync_event_teams_iterate \/ Raises("event_teams")
sync_matches ==
    Start("matches") \/ Iterate("matches") \/ Flush("matches") \/ Raises("matches")
sync_rankings ==
    Start("rankings") \/ Iterate("rankings") \/ Flush("rankings") \/ Raises("rankings")
sync_alliances ==
    Start("alliances") \/ Iterate("alliances") \/ Flush("alliances")
    \/ Raises("alliances")

tba_sync_teams ==
    tba_start("tba_teams") \/ tba_iterate("tba_teams") \/ Flush("tba_teams")
    \/ Raises("tba_teams")
tba_sync_districts ==
    tba_start("tba_districts") \/ tba_iterate("tba_districts")
    \/ Flush("tba_districts") \/ Raises("tba_districts")

Next ==
    \/ full_sync
    \/ live_sync
    \/ year_sync
    \/ run_task
    \/ tba_sync_teams
    \/ tba_sync_districts
    \/ sync_teams
    \/ sync_events
    \/ sync_event_teams
    \/ sync_matches
    \/ sync_rankings
    \/ sync_alliances
    \/ task_returns
    \/ flow_fails
    \/ upstream_changes
    \/ tick

Spec == Init /\ [][Next]_vars

\* ---------------------------------------------------------------------------
\* The task runner on its own: the flows, the attempts of their orchestrators
\* and the retries of both, over an orchestrator body reduced to its loop: a
\* bounded number of iterations, each of which returns or raises.
\* ---------------------------------------------------------------------------
MaxKeys == 2

Orchestrators ==
    {"teams", "events", "event_teams", "matches", "rankings", "alliances"}

\* An attempt of an orchestrator begins: its scope is resolved.
attempt_begins ==
    /\ \E t \in Orchestrators : Begins(t)
    /\ \E n \in 0..MaxKeys : keys' = [i \in 1..n |-> i]
    /\ idx' = 0
    /\ pc' = IF keys' = <<>> THEN "done" ELSE "loop"
    /\ UNCHANGED <<env, store, flow, done, batch_size, cached, valid, acc, fpos, resp,
                   call, faults, runs, delay, peer>>

\* An iteration of the loop returns: the next key, or the end of the body.
iteration_returns ==
    /\ task # None
    /\ pc = "loop"
    /\ idx' = idx + 1
    /\ pc' = IF idx + 1 < Len(keys) THEN "loop" ELSE "done"
    /\ UNCHANGED <<env, store, flow, done, task, sync_type, attempt, batch_size, keys,
                   cached, valid, acc, fpos, resp, call, faults, runs, delay, peer>>

\* An iteration raises: the attempt has failed.
iteration_raises ==
    /\ task # None
    /\ pc = "loop"
    /\ pc' = "failed"
    /\ UNCHANGED <<env, store, flow, done, task, sync_type, attempt, run_state, resp,
                   call, faults, runs, delay, peer>>

\* What the task runner does by itself once a flow is invoked.
Runner == attempt_begins \/ iteration_returns \/ task_returns \/ flow_fails

RunnerNext ==
    \/ full_sync
    \/ live_sync
    \/ year_sync
    \/ attempt_begins
    \/ iteration_returns
    \/ iteration_raises
    \/ task_returns
    \/ flow_fails

\* The runner goes on while it can take a step: a request answers or times
\* out, a statement returns or raises, a retry delay ends.
RunnerSpec == Init /\ [][RunnerNext]_vars /\ WF_vars(Runner)

\* ------------------------------------------ the scope resolver on its own
\* 1 March 2024 as a day number.
Mar1 == 30 * 365 + 60

StoredEvent(key, year, start, end, tz) ==
    [key |-> key, district_key |-> None, event_type |-> 0, year |-> year,
     start_date |-> start, end_date |-> end, timezone |-> tz, v |-> 1]

\* The event of the specification's scenario: no timezone, 1 to 3 March 2024.
ScenarioEvent == StoredEvent("2024s", 2024, Mar1, Mar1 + 2, <<>>)

\* The events a store may hold: the scenario's, two of the same days in
\* timezones west and east of UTC, and one that ends with the year before.
ScopeEvents ==
    { ScenarioEvent,
      StoredEvent("2024w", 2024, Mar1, Mar1 + 2, <<0 - 8>>),
      StoredEvent("2024e", 2024, Mar1, Mar1 + 2, <<10>>),
      StoredEvent("2023o", 2023, 30 * 365 - 2, 30 * 365 - 1, <<>>) }

\* 23:00Z on 1 March 2024.
ScenarioNow == Mar1 * 24 + 23

\* The instants the resolver is asked at: either side of the year's turn,
\* and either side of both ends of the buffered window in each timezone.
ScopeInstants ==
    { 30 * 365 * 24 - 1, 30 * 365 * 24 + 1,
      (Mar1 - 2) * 24 + 13, (Mar1 - 2) * 24 + 23, (Mar1 - 1) * 24 + 1,
      ScenarioNow,
      (Mar1 + 3) * 24 + 12, (Mar1 + 3) * 24 + 20, (Mar1 + 4) * 24 + 1,
      (Mar1 + 4) * 24 + 12 }

ScopeInit ==
    /\ now = 30 * 365 * 24 - 1
    /\ \E stored \in SUBSET ScopeEvents : db = [EmptyDB EXCEPT !.events = stored]
    /\ upstream = [e \in Endpoints |-> 1]
    /\ flow = Idle
    /\ task = None
    /\ sync_type = None
    /\ batch_size = BatchSize
    /\ pc = None
    /\ attempt = 0
    /\ keys = <<>>
    /\ idx = 0
    /\ cached = {}
    /\ valid = {}
    /\ acc = NewAccumulator
    /\ fpos = 1
    /\ resp = None
    /\ units = {}
    /\ committed = {}
    /\ ledger = <<>>
    /\ fetched = {}
    /\ changes = 0
    /\ faults = 0
    /\ runs = 0
    /\ call = NoCall
    /\ done = NoDone
    /\ delay = NoDelay
    /\ peer = NoPeer

\* db.get_event_keys(sync_type) is called.
resolve ==
    /\ \E st \in {"full", "live", "year"} :
          /\ sync_type' = st
          /\ keys' = get_event_keys(db, st, now)
    /\ UNCHANGED <<env, store, flow, done, task, batch_size, pc, attempt, idx, cached,
                   valid, acc, fpos, resp, call, faults, runs, delay, peer>>

\* Time passes: what was resolved before is no longer the scope.
scope_tick ==
    /\ \E t \in ScopeInstants :
          /\ t > now
          /\ now' = t
    /\ sync_type' = None
    /\ keys' = <<>>
    /\ UNCHANGED <<upstream, changes, store, flow, done, task, batch_size, pc, attempt,
                   idx, cached, valid, acc, fpos, resp, call, faults, runs, delay,
                   peer>>

ScopeNext == resolve \/ scope_tick

ScopeSpec == ScopeInit /\ [][ScopeNext]_vars

\* ---------------------------------------------------- the flush rule on its own
FlushInit ==
    /\ batch_size \in 1..MaxBatch
    /\ \E total \in 0..MaxTotal : keys = [i \in 1..total |-> i]
    /\ idx = 0
    /\ resp = None
    /\ now = 0
    /\ upstream = [e \in Endpoints |-> 1]
    /\ db = EmptyDB
    /\ flow = Idle
    /\ task = None
    /\ sync_type = None
    /\ pc = None
    /\ attempt = 0
    /\ cached = {}
    /\ valid = {}
    /\ acc = NewAccumulator
    /\ fpos = 1
    /\ units = {}
    /\ committed = {}
    /\ ledger = <<>>
    /\ fetched = {}
    /\ changes = 0
    /\ faults = 0
    /\ runs = 0
    /\ call = NoCall
    /\ done = NoDone
    /\ delay = NoDelay
    /\ peer = NoPeer

\* accumulator.should_flush(index, total) is asked at the next index; keys is
\* the scope, its length the total.
ask_should_flush ==
    /\ idx < MaxTotal
    /\ idx' = idx + 1
    /\ resp' = should_flush(batch_size, idx + 1, Len(keys))
    /\ call' = NoCall
    /\ UNCHANGED <<env, store, flow, done, task, sync_type, batch_size, pc, attempt,
                   keys, cached, valid, acc, fpos, faults, runs, delay, peer>>

FlushNext == ask_should_flush

FlushSpec == FlushInit /\ [][FlushNext]_vars

\* ---------------------------------------------------------------------------
\* The retried call sites on their own: TBAService._get against every
\* sequence of attempt outcomes, DBService.upsert against a store that is
\* down for some attempts and then executes the statement.
\* ---------------------------------------------------------------------------

\* An upstream that serves version v of every endpoint.
At(v) == [e \in Endpoints |-> v]

\* The frames the call sites are exercised with, as the normalizers produce
\* them: team pages in every version (the same keys with other values), one
\* page twice in one frame, the key-only frame of event participation (also
\* with every row twice), validator tokens, and rankings, whose
\* foreign keys nothing in these frames satisfies.
Fragments ==
    {[table_name |-> "teams", df |-> get_teams(At(v), 0, NoEtag).teams] :
        v \in 1..MaxVer}
    \cup {[table_name |-> "teams", df |-> get_teams(At(1), 1, NoEtag).teams]}
    \cup {[table_name |-> "teams",
           df |-> get_teams(At(1), 0, NoEtag).teams
                  \o get_teams(At(MaxVer), 0, NoEtag).teams]}
    \cup {[table_name |-> "event_teams",
           df |-> get_event_teams(At(1), "1994b", NoEtag).event_teams]}
    \cup {[table_name |-> "event_teams",
           df |-> get_event_teams(At(1), "1994b", NoEtag).event_teams
                  \o get_event_teams(At(1), "1994b", NoEtag).event_teams]}
    \cup {[table_name |-> "etags",
           df |-> <<[endpoint |-> Endpoint("teams", 0), etag |-> v]>>] :
            v \in 1..MaxVer}
    \cup {[table_name |-> "rankings",
           df |-> get_rankings(At(1), "1994a", NoEtag).rankings]}

\* The upsert call of a fragment with its table's conflict key.
Apply(store_db, f) == upsert(store_db, f.df, f.table_name, ConflictKey(f.table_name))

\* A call with its arguments and the store it met.
Called(made, args) ==
    [k \in DOMAIN made \cup {"args"} |-> IF k = "args" THEN args ELSE made[k]]

CallInit ==
    /\ db = EmptyDB
    /\ call = NoCall
    /\ now = 0
    /\ upstream = At(1)
    /\ flow = Idle
    /\ task = None
    /\ sync_type = None
    /\ batch_size = BatchSize
    /\ pc = None
    /\ attempt = 0
    /\ keys = <<>>
    /\ idx = 0
    /\ cached = {}
    /\ valid = {}
    /\ acc = NewAccumulator
    /\ fpos = 1
    /\ resp = None
    /\ units = {}
    /\ committed = {}
    /\ ledger = <<>>
    /\ fetched = {}
    /\ changes = 0
    /\ faults = 0
    /\ runs = 0
    /\ done = NoDone
    /\ delay = NoDelay
    /\ peer = NoPeer

\* One call of TBAService._get: each attempt meets a response status, a
\* transport error or an undecodable body.
call_get ==
    /\ \E outcomes \in [1..stop_after_attempt -> FetchOutcomes] :
          call' = retrying("fetch", outcomes, 0)
    /\ UNCHANGED <<env, store, flow, done, task, sync_type, run_state, pc, attempt,
                   resp, faults, runs, delay, peer>>

\* One call of DBService.upsert: the store is unreachable for the first
\* down attempts (the connection is refused or drops), then the statement is
\* executed.  The session of an attempt that raises is rolled back; the one
\* that returns commits.
call_upsert ==
    /\ \E f \in Fragments, down \in 0..stop_after_attempt,
          lost \in {"operational", "interface"} :
          LET res == Apply(db, f)
              twice == \E i, j \in DOMAIN f.df :
                          /\ i # j
                          /\ Project(f.df[i], ConflictKey(f.table_name))
                             = Project(f.df[j], ConflictKey(f.table_name))
              statement == IF res.ok THEN "ok"
                           ELSE IF twice THEN "programming" ELSE "integrity"
              outcomes == [i \in 1..stop_after_attempt |->
                             IF i <= down THEN lost ELSE statement]
              made == retrying("upsert", outcomes, 0)
          IN  /\ call' = Called(made, [df |-> f.df, table_name |-> f.table_name,
                                       before |-> db])
              /\ db' = IF made.status = "returned" THEN res.db ELSE db
    /\ UNCHANGED <<env, units, committed, ledger, fetched, flow, done, task,
                   sync_type, run_state, pc, attempt, resp, faults, runs, delay, peer>>

CallNext == call_get \/ call_upsert

CallSpec == CallInit /\ [][CallNext]_vars

\* ---------------------------------------------------------------------------
\* The served deployments: full_sync, year_sync and live_sync are scheduled
\* independently of each other, and a flow run is started whether or not
\* another is in progress.  Of each run, the orchestrator it is in and the
\* scope that orchestrator resolved when it began.
\* ---------------------------------------------------------------------------
Deployments == {"full", "year", "live"}

\* The hours within which an orchestrator in progress is followed.
MaxRunHours == 2

\* A flow run of a deployment is in one of its orchestrators, which has
\* resolved its scope at the current instant.
serve_enters ==
    /\ task = None
    /\ \E d \in Deployments : \E i \in DOMAIN FlowSteps(d) :
          /\ flow' = [name |-> d, step |-> i, attempt |-> 1]
          /\ task' = FlowSteps(d)[i][1]
          /\ sync_type' = FlowSteps(d)[i][2]
          /\ keys' = Scope(task', sync_type', db, now)
    /\ UNCHANGED <<env, store, done, batch_size, pc, attempt, idx, cached, valid, acc,
                   fpos, resp, call, faults, runs, delay, peer>>

\* While it is, a run of another deployment is in one of its orchestrators.
peer_enters ==
    /\ task # None
    /\ peer = NoPeer
    /\ \E d \in Deployments \ {flow.name} : \E i \in DOMAIN FlowSteps(d) :
          peer' = [name |-> d, task |-> FlowSteps(d)[i][1],
                   keys |-> Scope(FlowSteps(d)[i][1], FlowSteps(d)[i][2], db, now)]
    /\ UNCHANGED <<env, store, flow, done, task, sync_type, run_state, pc, attempt,
                   resp, call, faults, runs, delay>>

\* Time passes: freely between runs, and within MaxRunHours under an
\* orchestrator in progress.
serve_tick ==
    /\ \E t \in ScopeInstants :
          /\ t > now
          /\ task # None => t - now <= MaxRunHours
          /\ now' = t
    /\ UNCHANGED <<upstream, changes, store, flow, done, task, sync_type, run_state,
                   pc, attempt, resp, call, faults, runs, delay, peer>>

\* The orchestrators in progress return.
serve_returns ==
    /\ task # None
    /\ task' = None
    /\ flow' = Idle
    /\ sync_type' = None
    /\ keys' = <<>>
    /\ peer' = NoPeer
    /\ UNCHANGED <<env, store, done, batch_size, pc, attempt, idx, cached, valid, acc,
                   fpos, resp, call, faults, runs, delay>>

ServeNext == serve_enters \/ peer_enters \/ serve_tick \/ serve_returns

ServeSpec == ScopeInit /\ [][ServeNext]_vars

\* ------------------------------------------------------------------ claims
\* C1: in every reachable state, those a failure leaves behind among them,
\* a token the validator cache holds for an endpoint was returned by a fetch
\* of that endpoint whose data frames have all been committed: no token is
\* stored ahead of its rows.
C1_TokenAfterData ==
    \A r \in db.etags :
        \E u \in units :
            /\ u.endpoint = r.endpoint
            /\ u.etag = r.etag
            /\ u.frames \subseteq committed

\* A failed attempt has left the rows of a fetch unit committed and its token
\* unwritten, beside tokens written by an earlier flush.
C1_Witness ==
    /\ pc = "failed"
    /\ db.etags # {}
    /\ \E u \in units :
          /\ u.frames # {}
          /\ u.frames \subseteq committed
          /\ \A r \in db.etags : r.endpoint # u.endpoint

\* C2: after any sequence of flow runs, every team key a stored
\* event-participation, match-alliance-team, ranking or alliance-team row
\* carries, and every backup_in and backup_out of a stored alliance, is the
\* key of a stored team.
C2_NoAbsentTeam ==
    LET known == {t.key : t \in db.teams}
    IN  /\ \A r \in db.event_teams \cup db.match_alliance_teams
                    \cup db.rankings \cup db.alliance_teams :
              r.team_key \in known
        /\ \A a \in db.alliances :
              /\ a.backup_in # NoTeam => a.backup_in \in known
              /\ a.backup_out # NoTeam => a.backup_out \in known

\* Every child table holds rows of 1994a, whose payloads name team 7 that no
\* roster page lists, and a stored alliance names its backups.
C2_Witness ==
    /\ \E r \in db.event_teams : r.event_key = "1994a"
    /\ \E r \in db.match_alliance_teams : r.event_key = "1994a"
    /\ \E r \in db.rankings : r.event_key = "1994a"
    /\ \E r \in db.alliance_teams : r.event_key = "1994a"
    /\ \E a \in db.alliances : a.backup_in # NoTeam /\ a.backup_out # NoTeam

\* C3: at any instant the LIVE scope and the YEAR scope split the
\* current-year events: LIVE is the active ones, YEAR the others, no key is
\* in both and no current-year event is in neither.
C3_LiveYearPartition ==
    LET live == Range(get_event_keys(db, "live", now))
        year == Range(get_event_keys(db, "year", now))
        current == {e \in db.events : e.year = CurrentYear(now)}
    IN  /\ live \cap year = {}
        /\ live \cup year = {e.key : e \in current}
        /\ \A e \in current : e.key \in live <=> is_event_active(e, now)
        /\ sync_type = "live" => Range(keys) = live
        /\ sync_type = "year" => Range(keys) = year

\* The resolver has answered LIVE with an event while another event of the
\* year is in the YEAR scope and the store holds an event of another year.
C3_Witness ==
    /\ sync_type = "live"
    /\ keys # <<>>
    /\ get_event_keys(db, "year", now) # <<>>
    /\ \E e \in db.events : e.year # CurrentYear(now)

\* C4: the FULL scope is exactly the stored events, of any year, that are
\* not active: it holds no active event, so it shares no key with LIVE, and
\* it leaves out no inactive one.
C4_FullScope ==
    LET full == Range(get_event_keys(db, "full", now))
    IN  /\ full = {e.key : e \in {x \in db.events : ~is_event_active(x, now)}}
        /\ full \cap Range(get_event_keys(db, "live", now)) = {}
        /\ sync_type = "full" => Range(keys) = full

\* The resolver has answered FULL with events of two years while an event is
\* active and left out.
C4_Witness ==
    /\ sync_type = "full"
    /\ \E i, j \in DOMAIN keys :
          \E e, f \in db.events :
             e.key = keys[i] /\ f.key = keys[j] /\ e.year # f.year
    /\ \E e \in db.events : is_event_active(e, now) /\ e.key \notin Range(keys)

\* C5: an event is active exactly when start_date - buffer <= now_date <=
\* end_date + buffer, with now_date the date at its timezone (UTC when it has
\* none) and buffer 1 day 2 hours, dates read as their midnights; the event
\* without timezone of 1 to 3 March 2024 is active at 2024-03-01T23:00Z.
C5_ActiveWindow ==
    /\ \A e \in db.events :
          LET offset == IF e.timezone = <<>> THEN 0 ELSE e.timezone[1]
              now_date == (now + offset) \div 24
          IN  is_event_active(e, now)
              <=> /\ e.start_date * 24 - buffer_hours <= now_date * 24
                  /\ now_date * 24 <= e.end_date * 24 + buffer_hours
    /\ now = ScenarioNow => is_event_active(ScenarioEvent, now)
    /\ sync_type = "live" =>
          \A e \in db.events :
             e.key \in Range(keys)
             => LET offset == IF e.timezone = <<>> THEN 0 ELSE e.timezone[1]
                    now_date == (now + offset) \div 24
                IN  /\ e.start_date * 24 - buffer_hours <= now_date * 24
                    /\ now_date * 24 <= e.end_date * 24 + buffer_hours

\* At 2024-03-01T23:00Z the resolver has answered LIVE with the scenario's
\* event.
C5_Witness ==
    /\ now = ScenarioNow
    /\ sync_type = "live"
    /\ ScenarioEvent \in db.events
    /\ ScenarioEvent.key \in Range(keys)

\* C6: should_flush(index, total) is true exactly when index is a multiple
\* of batch_size or index equals total; with batch_size 5 the indices that
\* flush are 5, 10, 15, ... and the final index, and no other.
C6_ShouldFlush ==
    idx > 0 =>
        /\ resp <=> \/ \E k \in 1..idx : idx = k * batch_size
                    \/ idx = Len(keys)
        /\ batch_size = 5 =>
              (resp <=> idx \in {5 * k : k \in 1..MaxTotal} \cup {Len(keys)})

\* With batch_size 5 and a total of 13 the rule has flushed at index 13.
C6_Witness ==
    /\ batch_size = 5
    /\ Len(keys) = 13
    /\ idx = 13
    /\ resp = TRUE

\* C7: at every point of a run of a batching orchestrator, each accumulator
\* bucket holds the frames of at most batch_size fetch units.
C7_BucketBound ==
    task \in Accumulating =>
        \A b \in DOMAIN acc.data : Len(acc.data[b]) <= batch_size

\* C8: when an orchestrator has terminated normally, every frame and every
\* validator update it accumulated in the run has been upserted exactly once.
C8_FlushedOnce ==
    (task # None /\ pc = "done") =>
        \A item \in DOMAIN ledger : ledger[item] = 1

\* sync_events has terminated normally over the years since start_year, the
\* skipped year among them, with a payload accumulated and a cache hit on the
\* last key.
C8_Witness ==
    /\ task = "events"
    /\ pc = "done"
    /\ now = Late
    /\ DOMAIN ledger # {}
    /\ lookup(cached, Endpoint("events", 2022)) = upstream[Endpoint("events", 2022)]

\* C9: a step whose fetch is answered 304 is not a failure and does nothing
\* for its key: no frame is normalized or accumulated, no row of any table
\* changes, the validator cache keeps its entries, and the orchestrator moves
\* to the next key.
C9_NotModifiedSkips ==
    [][resp' = "304" =>
          /\ pc' \in {"loop", "final", "done"}
          /\ task' = task
          /\ idx' = idx + 1
          /\ acc' = acc
          /\ db' = db
          /\ units' = units
          /\ fetched' = fetched
          /\ committed' = committed]_vars

\* sync_rankings has just been answered 304 for a key whose rows an earlier
\* run stored.
C9_Witness ==
    /\ task = "rankings"
    /\ resp = "304"
    /\ \E r \in db.rankings : r.event_key = keys[idx]
    /\ \E r \in db.etags : r.endpoint = Endpoint("rankings", keys[idx])

FetchOf(endpoint, etag) ==
    Fetch(IF endpoint[1] = "districts" THEN "tba_districts" ELSE endpoint[1],
          upstream, endpoint[2], etag)

C13_UpsertIdempotent ==
    /\ \A f \in Fragments :
          LET once == Apply(db, f)
          IN  once.ok => Apply(once.db, f) = once
    /\ (/\ call.site = "upsert"
        /\ call.status = "returned"
        /\ Apply(call.args.before, call.args) = [ok |-> TRUE, db |-> call.args.before])
       => db = call.args.before

\* A team page is upserted over its own rows, stored with the same values
\* by an earlier call.
C13_Witness ==
    /\ call.site = "upsert"
    /\ call.status = "returned"
    /\ call.args.table_name = "teams"
    /\ Range(call.args.df) \subseteq call.args.before.teams
    /\ call.args.df # <<>>
    /\ db = call.args.before

\* C14: an upsert that returns has stored every row of its fragment: a row
\* whose conflict key was not stored is inserted, and a stored row with the
\* same conflict key has every non-key column of the fragment overwritten
\* with the fragment's value.  When the fragment has no column besides the
\* conflict key, the rows stored before the call are left as they were, and
\* the call does not fail on a key that is already stored or that the
\* fragment holds twice.  Rows the fragment does not name, and the other
\* tables, are left alone.
C14_InsertOrOverwrite ==
    /\ (call.site = "upsert" /\ call.status = "returned") =>
          LET df == call.args.df
              t == call.args.table_name
              before == call.args.before
              key_cols == ConflictKey(t)
              update_cols == DOMAIN df[1] \ key_cols
          IN  /\ \A i \in DOMAIN df : \E r \in db[t] :
                    /\ Project(r, key_cols) = Project(df[i], key_cols)
                    /\ Project(r, update_cols) = Project(df[i], update_cols)
              /\ update_cols = {} => before[t] \subseteq db[t]
              /\ \A old \in before[t] :
                    (\A i \in DOMAIN df :
                        Project(df[i], key_cols) # Project(old, key_cols))
                    => old \in db[t]
              /\ \A o \in Tables \ {t} : db[o] = before[o]
    /\ \A f \in Fragments :
          DOMAIN f.df[1] \subseteq ConflictKey(f.table_name) => Apply(db, f).ok

\* A team page has been upserted over a stored row of the same key with
\* another value, which now has the page's value.
C14_Witness ==
    /\ call.site = "upsert"
    /\ call.status = "returned"
    /\ call.args.table_name = "teams"
    /\ \E i \in DOMAIN call.args.df : \E old \in call.args.before.teams :
          /\ old.key = call.args.df[i].key
          /\ old.v # call.args.df[i].v
          /\ call.args.df[i] \in db.teams
          /\ old \notin db.teams

\* C15: the fetch client retries only network failures and 5xx responses: an
\* attempt is followed by another only when it met one of the two, and a
\* call whose first attempt meets a 4xx response makes that attempt only and
\* raises.
C15_RetriesOnlyTransient ==
    call.site = "fetch" =>
       /\ \A i \in 1..(call.tries - 1) : call.outcomes[i] \in {"5xx", "network"}
       /\ call.outcomes[1] = "4xx" => call.tries = 1 /\ call.status = "raised"

\* The failures the call sites treat as transient: the connection to the
\* provider or a 5xx answer, the connection to the store.
Transient(site) ==
    IF site = "fetch" THEN {"5xx", "network"} ELSE {"operational", "interface"}

\* C16: a fetch call and an upsert call make at most 3 attempts.  No attempt
\* follows one that succeeded, and the call returns exactly when its last
\* attempt succeeded.  Transient failures are retried: the first success
\* after them ends the call, and when all 3 attempts fail the call raises
\* the third failure to its caller, an upsert leaving the store as it met it.
C16_AtMostThreeAttempts ==
    call.site # None =>
       /\ call.tries \in 1..3
       /\ call.outcome = call.outcomes[call.tries]
       /\ \A i \in 1..(call.tries - 1) : ~Returns(call.outcomes[i])
       /\ call.status = IF Returns(call.outcome) THEN "returned" ELSE "raised"
       /\ \A k \in 1..3 :
             (/\ \A i \in 1..(k - 1) : call.outcomes[i] \in Transient(call.site)
              /\ Returns(call.outcomes[k]))
             => call.tries = k /\ call.status = "returned"
       /\ (\A i \in 1..3 : call.outcomes[i] \in Transient(call.site))
             => call.tries = 3 /\ call.status = "raised"
       /\ (call.site = "upsert" /\ call.status = "raised") => db = call.args.before

\* The store was unreachable at all three attempts of an upsert over stored
\* teams: the call raised the third failure.
C16_Witness ==
    /\ call.site = "upsert"
    /\ call.tries = 3
    /\ call.status = "raised"
    /\ call.outcome \in Transient("upsert")
    /\ call.args.table_name = "teams"
    /\ db.teams # {}

\* The errors of the store that are not a lost connection: a constraint the
\* statement violates, a statement the schema does not admit.
Structural == {"integrity", "programming"}

\* C17: an upsert that meets a structural error of the store makes one
\* attempt and raises; the step leaves the store as it was (the session is
\* rolled back) and the orchestrator that made the call has failed.  A
\* failed orchestrator run does nothing more: the next step of the task is a
\* new attempt from its start, or the end of the flow run.
C17_StructuralNotRetried ==
    [][/\ (call'.site = "upsert" /\ call'.outcome \in Structural)
          => /\ call'.tries = 1
             /\ call'.status = "raised"
             /\ db' = db
             /\ pc' = "failed"
             /\ task' = task
       /\ (pc = "failed" /\ pc' # "failed")
          => task' = None \/ (attempt' = attempt + 1 /\ idx' = 0)]_vars

\* The alliances orchestrator has failed on a selection that names a backup
\* team the store does not hold; what the flow stored before is in place.
C17_Witness ==
    /\ pc = "failed"
    /\ task = "alliances"
    /\ call.site = "upsert"
    /\ call.outcome = "integrity"
    /\ call.tries = 1
    /\ db.matches # {}
    /\ db.alliances = {}

\* C18: when the payload of fetch unit k fails validation, the step leaves
\* the store, the loop index and the accumulator as they were and the
\* orchestrator has failed at k.  In the state it leaves, every frame and
\* token this run has upserted is still stored with its values, and the
\* token stored for unit k is the one the run sent with its request; while
\* the run stays failed the store does not change.
C18_ValidationAborts ==
    [][/\ resp' = "invalid"
          => /\ db' = db
             /\ pc' = "failed"
             /\ idx' = idx
             /\ acc' = acc
             /\ committed' = committed
             /\ \A item \in DOMAIN ledger' :
                   ledger'[item] > 0 => Range(item[2]) \subseteq db'[item[1]]
             /\ get_etag(db', Endpoint(Template(task), keys[idx + 1]))
                = SentEtag(task, keys[idx + 1])
       /\ (pc = "failed" /\ pc' = "failed") => db' = db]_vars

\* The matches of an event fail validation after the run has flushed the
\* matches and the token of an earlier event.
C18_Witness ==
    /\ resp = "invalid"
    /\ pc = "failed"
    /\ task = "matches"
    /\ idx > 0
    /\ \E item \in DOMAIN ledger :
          /\ item[1] = "matches"
          /\ ledger[item] > 0
          /\ Range(item[2]) \subseteq db.matches
    /\ \E item \in DOMAIN ledger : item[1] = "etags" /\ ledger[item] > 0

\* The tables an orchestrator writes besides the validator cache.
Written(t) == IF t = "event_teams" THEN {"event_teams"} ELSE Range(Buckets(t))

\* C19: the failure of an orchestrator undoes nothing.  The step in which a
\* run fails, and the step in which its failure ends the flow run, leave the
\* store as it was; the store changes only in a step of a running
\* orchestrator, which leaves the tables of the other entity types and the
\* validator tokens of the other endpoint templates as the earlier
\* orchestrators left them, and removes no row and no token.
C19_FailureKeepsEarlier ==
    [][/\ (pc' = "failed" \/ (pc = "failed" /\ task' = None)) => db' = db
       /\ db' # db
          => /\ task # None
             /\ task' = task
             /\ \A o \in Tables \ (Written(task) \cup {"etags"}) : db'[o] = db[o]
             /\ \A r \in db.etags : r.endpoint[1] # Template(task) => r \in db'.etags
             /\ \A o \in Written(task) \cup {"etags"} : \A r \in db[o] :
                   \E k \in db'[o] :
                      Project(k, ConflictKey(o)) = Project(r, ConflictKey(o))]_vars

\* full_sync has failed in its matches orchestrator, whose requests met a
\* network failure at every attempt; the teams, events and participation
\* stored by the orchestrators before it, and their tokens, are in place.
C19_Witness ==
    /\ flow.name = "full"
    /\ task = "matches"
    /\ pc = "failed"
    /\ resp = "error"
    /\ db.teams # {}
    /\ db.events # {}
    /\ db.event_teams # {}
    /\ \E r \in db.etags : r.endpoint[1] = "teams"
    /\ \E r \in db.etags : r.endpoint[1] = "event_teams"

\* The place of an entity type in the dependency order.
Rank(t) ==
    CASE t = "teams" -> 1
      [] t = "events" -> 2
      [] t = "event_teams" -> 3
      [] t = "matches" -> 4
      [] t = "rankings" -> 5
      [] t = "alliances" -> 6

\* The orchestrators a flow run has called before its current step.
Earlier == {FlowSteps(flow.name)[i][1] : i \in 1..(flow.step - 1)}

\* C20: in a run of full_sync, live_sync or year_sync one orchestrator runs
\* at a time, the one of the flow's current step; the orchestrators called
\* before it come earlier in the order teams, events, event participation,
\* matches, rankings, alliances, and the flow calls the next one only when
\* the one running has returned.  In a flow that syncs teams, participation
\* and alliances run after teams; in a flow that syncs events, matches run
\* after events.
C20_DependencyOrder ==
    [][/\ (task' # None /\ flow'.name \in {"full", "live", "year"})
          => /\ task' = FlowSteps(flow'.name)[flow'.step][1]
             /\ \A e \in Earlier' : Rank(e) < Rank(task')
             /\ (task' \in {"event_teams", "alliances"} /\ flow'.name = "full")
                => "teams" \in Earlier'
             /\ (task' = "matches" /\ flow'.name \in {"full", "year"})
                => "events" \in Earlier'
       /\ (flow.name \in {"full", "live", "year"} /\ task # None /\ task' # task)
          => task' = None /\ pc \in {"done", "failed"}
       /\ (flow.name \in {"full", "live", "year"} /\ flow'.name = flow.name
           /\ flow'.step > flow.step)
          => task # None /\ pc = "done" /\ flow'.step = flow.step + 1
       /\ (task = None /\ task' # None) => flow' = flow /\ attempt' = 1]_vars

\* full_sync is in its last orchestrator, alliances, after the five before
\* it have returned and stored their rows.
C20_Witness ==
    /\ flow.name = "full"
    /\ flow.step = 6
    /\ task = "alliances"
    /\ pc = "loop"
    /\ Earlier = {"teams", "events", "event_teams", "matches", "rankings"}
    /\ db.teams # {}
    /\ db.events # {}
    /\ db.event_teams # {}
    /\ db.matches # {}
    /\ db.rankings # {}

\* C21: every flow invocation terminates.  An orchestrator is in its first
\* attempt or in one of at most 2 retries, a flow run likewise; a flow retry
\* starts again at the flow's first step; the loop of an orchestrator stays
\* within its scope keys; and a flow that has been invoked is eventually
\* over, as a success or as a failed run.
C21_Terminates ==
    /\ [](/\ attempt \in 0..(task_retries + 1)
          /\ flow.attempt \in 0..(flow_retries + 1)
          /\ flow.name # None => flow.step \in 1..Len(FlowSteps(flow.name))
          /\ idx <= Len(keys))
    /\ [][/\ flow'.attempt > flow.attempt
             => /\ flow'.step = 1
                /\ flow.name = None \/ (pc = "failed" /\ attempt = task_retries + 1)
          /\ (task # None /\ task' = task /\ attempt' # attempt)
             => pc = "failed" /\ attempt' = attempt + 1]_vars
    /\ (flow.name # None) ~> (flow = Idle)

\* The last attempt of the last retry of full_sync has failed in its last
\* orchestrator: the run is about to end as failed.
C21_Witness ==
    /\ flow.name = "full"
    /\ flow.attempt = flow_retries + 1
    /\ task = "alliances"
    /\ attempt = task_retries + 1
    /\ pc = "failed"

\* C22: within an orchestrator every fetch is followed by the delay before
\* the next one is issued.  An orchestrator that is about to issue a request
\* has issued none yet in this attempt, or has slept since its last one,
\* whether that one answered with a payload or with NotModified.
C22_DelayAfterEveryFetch ==
    (task # None /\ pc = "loop") => (delay = NoDelay \/ delay > 0)

\* The endpoint identifiers an orchestrator in progress may write, and with
\* them the rows it derives from their payloads.
Writes(t, scope) == {Endpoint(t, scope[i]) : i \in DOMAIN scope}

\* C23: no two tasks write the same validator endpoint identifier or the
\* same destination row concurrently: two orchestrators in progress at once,
\* in runs of different flows, have no endpoint identifier in common.
C23_NoConcurrentWrite ==
    (task # None /\ peer.task # None)
       => Writes(task, keys) \cap Writes(peer.task, peer.keys) = {}

\* The fragments that hold a team key per row.
ChildBuckets == {"event_teams", "match_alliance_teams", "rankings", "alliance_teams"}

\* The positions of a fragment whose row names a team of the set.
ValidAt(df, team_keys) == {i \in DOMAIN df : df[i].team_key \in team_keys}

\* The n-th of them.
NthValid(df, team_keys, n) ==
    CHOOSE p \in ValidAt(df, team_keys) :
       Cardinality({q \in ValidAt(df, team_keys) : q <= p}) = n

\* A fragment is what is left of another when the rows whose team is not in
\* the set are struck out, the others keeping their places among themselves.
IsValidSubset(out, df, team_keys) ==
    /\ Len(out) = Cardinality(ValidAt(df, team_keys))
    /\ \A n \in DOMAIN out : out[n] = df[NthValid(df, team_keys, n)]

\* C24: filtering a child fragment against the valid-team set gives exactly
\* its rows whose team key is in the set, in their original order, and is
\* defined whether some, all or none of the rows go.  It is so for the
\* child fragments of the unit the running orchestrator fetches next,
\* against the set it read at its start, against no team and against every
\* team; and the child frames recorded for the unit it fetched last are the
\* valid subsets of what the normalizer returned.
C24_FilterKeepsValid ==
    (task \in {"event_teams", "matches", "rankings", "alliances"} /\ pc = "loop")
    => /\ LET result == Fetch(task, upstream, keys[idx + 1], NoEtag)
          IN  \A b \in ChildBuckets \cap DOMAIN result :
                 \A team_keys \in {valid, {}, {r.team_key : r \in Range(result[b])}} :
                    LET out == filter_valid(result[b], team_keys)
                    IN  /\ IsValidSubset(out, result[b], team_keys)
                        /\ Range(out) = {r \in Range(result[b]) :
                                           r.team_key \in team_keys}
       /\ (resp = "200" /\ idx > 0)
          => LET result == Fetch(task, upstream, keys[idx], NoEtag)
             IN  \E u \in units :
                    /\ u.endpoint = Endpoint(task, keys[idx])
                    /\ \A b \in ChildBuckets \cap DOMAIN result :
                          \/ /\ ValidAt(result[b], valid) = {}
                             /\ \A f \in u.frames : f[1] # b
                          \/ \E f \in u.frames :
                                /\ f[1] = b
                                /\ IsValidSubset(f[2], result[b], valid)

\* The matches orchestrator has accumulated the unit of an event whose
\* match-alliance-team fragment lost some of its rows to the filter and kept
\* others.
C24_Witness ==
    /\ task = "matches"
    /\ pc = "loop"
    /\ resp = "200"
    /\ idx > 0
    /\ LET df == Fetch(task, upstream, keys[idx], NoEtag).match_alliance_teams
       IN  /\ ValidAt(df, valid) # {}
           /\ ValidAt(df, valid) # DOMAIN df
           /\ \E u \in units : \E f \in u.frames :
                 /\ u.endpoint = Endpoint(task, keys[idx])
                 /\ f[1] = "match_alliance_teams"
                 /\ Len(f[2]) = Cardinality(ValidAt(df, valid))

\* The accumulator holds no frame in any bucket and no pending token.
HoldsNothing(a) ==
    /\ \A b \in DOMAIN a.data : a.data[b] = <<>>
    /\ a.etags = <<>>

\* This step ends a flush cycle inside the loop.
LoopFlushEnds == task # None /\ pc = "flush" /\ pc' \notin {"flush", "failed"}

\* This step ends the flush cycle after the loop.
FinalFlushEnds == task # None /\ pc = "final" /\ pc' = "done"

\* C25, as stated: whenever a flush cycle runs, every non-empty bucket and
\* all pending validator updates are upserted in that cycle and then
\* cleared; after a completed flush cycle, whether inside the loop or after
\* it, the accumulator holds no fragment and no pending token.
C25_FlushClears ==
    [][(task \notin Legacy /\ (LoopFlushEnds \/ FinalFlushEnds))
       => /\ HoldsNothing(acc')
          /\ \A item \in DOMAIN ledger' : ledger'[item] >= 1]_vars

\* C25, amended: every flush cycle upserts every non-empty bucket and all
\* pending validator updates, so that when it ends nothing accumulated so
\* far is unwritten; a cycle inside the loop also clears what it wrote and
\* leaves the accumulator holding nothing, while the cycle after the loop
\* writes without clearing.
C25_FlushWritesAll ==
    [][/\ (LoopFlushEnds \/ FinalFlushEnds)
          => \A item \in DOMAIN ledger' : ledger'[item] >= 1
       /\ LoopFlushEnds => HoldsNothing(acc')
       /\ FinalFlushEnds => acc' = acc]_vars

\* A flush cycle inside the events loop has just ended, having written
\* frames and tokens, and the loop goes on.
C25_Witness ==
    /\ task = "events"
    /\ pc = "loop"
    /\ idx > 0
    /\ resp = None
    /\ HoldsNothing(acc)
    /\ DOMAIN acc.data # {}
    /\ \E item \in DOMAIN ledger : item[1] = "etags" /\ ledger[item] = 1
    /\ \E item \in DOMAIN ledger : item[1] = "events" /\ ledger[item] = 1

\* ------------------------------------------- event participation, two versions
\* sleep(3.0) in tasks/tba sync_event_teams, in tenths of a second.
tba_event_teams_delay == 30

\* The store after sync_teams wrote the first pages of the roster and
\* sync_events wrote the events of 1994.
ParticipationStore(pages) ==
    LET up == [e \in Endpoints |-> 1]
        result == get_events(up, 1994, NoEtag)
    IN  [EmptyDB EXCEPT
           !.teams = UNION {Range(get_teams(up, p, NoEtag).teams) : p \in 0..(pages - 1)},
           !.events = Range(result.events),
           !.event_districts = Range(result.event_districts)]

ParticipationInit ==
    /\ now \in Instants
    /\ upstream = [e \in Endpoints |-> 1]
    /\ \E pages \in 0..DataPages : db = ParticipationStore(pages)
    /\ \E name \in {"full", "year"} :
          flow = [name |-> name, step |-> IF name = "full" THEN 3 ELSE 2, attempt |-> 1]
    /\ task = None
    /\ sync_type = None
    /\ batch_size = BatchSize
    /\ pc = None
    /\ attempt = 0
    /\ keys = <<>>
    /\ idx = 0
    /\ cached = {}
    /\ valid = {}
    /\ acc = NewAccumulator
    /\ fpos = 1
    /\ resp = None
    /\ units = {}
    /\ committed = {}
    /\ ledger = <<>>
    /\ fetched = {}
    /\ changes = 0
    /\ faults = 0
    /\ runs = 0
    /\ call = NoCall
    /\ done = NoDone
    /\ delay = NoDelay
    /\ peer = NoPeer

\* tasks/tba sync_event_teams begins, as the flow's step or as the retry of
\* a failed attempt: it resolves its scope and reads nothing else ahead.
tba_sync_event_teams_start ==
    /\ \/ /\ task = None
          /\ flow.name # None
          /\ FlowSteps(flow.name)[flow.step][1] = "event_teams"
          /\ task' = "tba_event_teams"
          /\ sync_type' = FlowSteps(flow.name)[flow.step][2]
          /\ attempt' = 1
       \/ /\ task = "tba_event_teams"
          /\ pc = "failed"
          /\ attempt <= task_retries
          /\ attempt' = attempt + 1
          /\ UNCHANGED <<task, sync_type>>
    /\ keys' = get_event_keys(db, sync_type', now)
    /\ cached' = {}
    /\ valid' = {}
    /\ acc' = NewAccumulator
    /\ idx' = 0
    /\ fpos' = 1
    /\ resp' = None
    /\ call' = NoCall
    /\ ledger' = <<>>
    /\ pc' = IF keys' = <<>> THEN "done" ELSE "loop"
    /\ delay' = NoDelay
    /\ UNCHANGED <<env, db, units, committed, fetched, flow, done, batch_size, faults,
                   runs, peer>>

\* The attempts of one DBService call of which the first `down` find the
\* database unreachable.
Attempts(down, statement) ==
    [i \in 1..stop_after_attempt |-> IF i <= down THEN "operational" ELSE statement]

\* One iteration of tasks/tba sync_event_teams: the token is read from the
\* store and sent; a payload's rows are filtered against the roster as it
\* stands and upserted by db.upsert in a session of its own; then the token
\* is upserted by db.upsert_etag in another.  Either call raises when the
\* database stays unreachable through its attempts.
tba_sync_event_teams_iterate ==
    /\ task = "tba_event_teams"
    /\ pc = "loop"
    /\ LET event_key == keys[idx + 1]
           etag_key == Endpoint("event_teams", event_key)
           result == get_event_teams(upstream, event_key, get_etag(db, etag_key))
           more == IF idx + 1 < Len(keys) THEN "loop" ELSE "done"
       IN  \/ /\ result.hit
              /\ resp' = "304"
              /\ call' = NoCall
              /\ idx' = idx + 1
              /\ pc' = more
              /\ delay' = 0
              /\ UNCHANGED store
           \/ /\ ~result.hit
              /\ \E rows_down, token_down \in 0..stop_after_attempt :
                    LET event_teams_df ==
                            filter_valid(result.event_teams, get_team_keys(db))
                        rows == upsert(db, event_teams_df, "event_teams",
                                       {"event_key", "team_key"})
                        rows_call ==
                            IF event_teams_df = <<>> THEN NoCall
                            ELSE retrying("upsert",
                                          Attempts(rows_down,
                                                   IF rows.ok THEN "ok" ELSE "integrity"),
                                          0)
                        rows_raised == rows_call # NoCall /\ rows_call.status = "raised"
                        after_rows == IF rows_raised THEN db ELSE rows.db
                        etag_df == <<[endpoint |-> etag_key, etag |-> result.etag]>>
                        token == upsert(after_rows, etag_df, "etags", {"endpoint"})
                        token_call ==
                            IF result.etag = NoEtag THEN NoCall
                            ELSE retrying("upsert", Attempts(token_down, "ok"), 0)
                        token_raised == token_call # NoCall /\ token_call.status = "raised"
                    IN  /\ resp' = "200"
                        /\ fetched' = fetched \cup {etag_key}
                        /\ IF rows_raised
                           THEN /\ call' = rows_call
                                /\ pc' = "failed"
                                /\ delay' = 0
                                /\ UNCHANGED <<db, units, committed, idx>>
                           ELSE /\ committed' = committed
                                      \cup (IF event_teams_df = <<>> THEN {}
                                            ELSE {<<"event_teams", event_teams_df>>})
                                /\ units' = units \cup
                                      { [endpoint |-> etag_key, etag |-> result.etag,
                                         frames |-> IF event_teams_df = <<>> THEN {}
                                                    ELSE {<<"event_teams",
                                                            event_teams_df>>}] }
                                /\ call' = token_call
                                /\ IF token_raised
                                   THEN /\ db' = after_rows
                                        /\ pc' = "failed"
                                        /\ delay' = 0
                                        /\ UNCHANGED idx
                                   ELSE /\ db' = IF result.etag = NoEtag THEN after_rows
                                                 ELSE token.db
                                        /\ idx' = idx + 1
                                        /\ pc' = more
                                        /\ delay' = tba_event_teams_delay
              /\ UNCHANGED ledger
    /\ UNCHANGED <<env, flow, done, task, sync_type, batch_size, attempt, keys, cached,
                   valid, acc, fpos, faults, runs, peer>>

\* The orchestrator returns, or fails for good; the flow's step may be run
\* again by a later flow run.
participation_returns ==
    /\ task # None
    /\ pc = "done" \/ (pc = "failed" /\ attempt > task_retries)
    /\ runs < MaxRuns
    /\ runs' = runs + 1
    /\ task' = None
    /\ pc' = None
    /\ resp' = None
    /\ call' = NoCall
    /\ delay' = NoDelay
    /\ UNCHANGED <<env, store, flow, done, sync_type, attempt, run_state, faults, peer>>

ParticipationNext ==
    \/ sync_event_teams_start
    \/ sync_event_teams_iterate
    \/ tba_sync_event_teams_start
    \/ tba_sync_event_teams_iterate
    \/ participation_returns
    \/ upstream_changes

ParticipationSpec == ParticipationInit /\ [][ParticipationNext]_vars

\* The participation rows of the event fetched last, as the orchestrator
\* filtered them, and its token.
UnitRows ==
    LET result == get_event_teams(upstream, keys[idx + 1], NoEtag)
    IN  Range(filter_valid(result.event_teams,
                           IF task = "event_teams" THEN valid ELSE get_team_keys(db)))

UnitToken == upstream[Endpoint("event_teams", keys[idx + 1])]

\* C26: in the event-participation orchestrator the rows of an event and
\* the event's token are written in one session scope: an iteration that
\* got a payload either commits both, or, if any statement fails, leaves
\* the store as it was.
C26_BothOrNeither ==
    [][(task \in {"event_teams", "tba_event_teams"} /\ pc = "loop" /\ resp' = "200")
       => \/ db' = db
          \/ /\ UnitRows \subseteq db'.event_teams
             /\ get_etag(db', Endpoint("event_teams", keys[idx + 1])) = UnitToken]_vars

\* The first year of the events orchestrator's tier.
FirstYear == IF sync_type = "full" THEN start_year ELSE CurrentYear(now)

\* C27: the events orchestrator's years are, in the FULL tier, every year
\* from 1992 to the current one except 2021, and in the other tiers the
\* current year alone, in ascending order and each once; each of its
\* fetches is the conditional fetch of the next year of that list, against
\* that year's own cache entry; and when it returns it has gone through
\* the whole list.
C27_YearsFetchedOnce ==
    /\ [](task = "events" /\ pc # None =>
            /\ {keys[i] : i \in DOMAIN keys}
                 = (FirstYear..CurrentYear(now)) \ {skipped_year}
            /\ \A i \in DOMAIN keys : i > 1 => keys[i - 1] < keys[i]
            /\ \A i, j \in DOMAIN keys :
                  i # j => Endpoint("events", keys[i]) # Endpoint("events", keys[j])
            /\ pc = "done" => idx = Len(keys))
    /\ [][(task = "events" /\ pc = "loop" /\ resp' \in {"200", "304"})
          => LET etag_key == Endpoint("events", keys[idx + 1])
             IN  /\ idx' = idx + 1
                 /\ resp' = "304" <=> lookup(cached, etag_key) = upstream[etag_key]
                 /\ resp' = "200" => fetched' = fetched \cup {etag_key}]_vars

\* The FULL events orchestrator has returned in 2022, having gone through
\* 1992 to 2020 and 2022.
C27_Witness ==
    /\ task = "events"
    /\ sync_type = "full"
    /\ pc = "done"
    /\ CurrentYear(now) > skipped_year
    /\ idx = CurrentYear(now) - start_year

\* The fragments that name teams, and the team a row of one names.
TeamFragments ==
    {"teams", "event_teams", "match_alliance_teams", "rankings", "alliance_teams"}

TeamKeyOf(b, r) == IF b = "teams" THEN r.key ELSE r.team_key

\* The team keys a raw payload names.
RawTeamKeys(kind, payload) ==
    CASE kind = "teams" -> {r.key : r \in Range(payload)}
      [] kind = "event_teams" -> Range(payload)
      [] kind = "matches" ->
            UNION {Range(m.red) \cup Range(m.blue) : m \in Range(payload)}
      [] kind = "rankings" -> Range(payload.rankings)
      [] kind = "alliances" -> UNION {Range(a.picks) : a \in Range(payload)}
      [] OTHER -> {}

\* The reserved team numbers.
Reserved == reserved_lo..reserved_hi

\* The number a team key carries, whatever follows it.
NumberIn(team_key) == team_key % Unmatched

\* C28, as stated: no team whose number lies in 9970..9999 appears in a
\* normalized fragment, and every team of the payload whose number is
\* outside the range is in the fragment.
C28_OnlyReservedRemoved ==
    (task \in {"teams", "tba_teams", "event_teams", "matches", "rankings", "alliances"}
     /\ pc \in {"loop", "flush", "final"})
    => \A i \in {idx, idx + 1} \cap DOMAIN keys :
          LET endpoint == Endpoint(Template(task), keys[i])
              payload == RawPayload(endpoint, upstream[endpoint])
              result == Fetch(task, upstream, keys[i], NoEtag)
          IN  \A b \in TeamFragments \cap DOMAIN result :
                 LET out == {TeamKeyOf(b, r) : r \in Range(result[b])}
                 IN  /\ \A k \in out : NumberIn(k) \notin Reserved
                     /\ \A k \in RawTeamKeys(Template(task), payload) :
                           NumberIn(k) \notin Reserved => k \in out

\* C28, amended: no team whose number lies in 9970..9999 appears in a
\* normalized fragment (teams, event participation, match-alliance-teams,
\* rankings, alliance picks); every team of the payload whose key is "frc"
\* and a number outside the range is in the fragment; and a key of another
\* form, from which no number is read, is in none of the fragments filtered
\* by key.  Stated of the unit the running orchestrator fetched last and of
\* the one it fetches next.
C28_ReservedRemoved ==
    (task \in {"teams", "tba_teams", "event_teams", "matches", "rankings", "alliances"}
     /\ pc \in {"loop", "flush", "final"})
    => \A i \in {idx, idx + 1} \cap DOMAIN keys :
          LET endpoint == Endpoint(Template(task), keys[i])
              payload == RawPayload(endpoint, upstream[endpoint])
              result == Fetch(task, upstream, keys[i], NoEtag)
          IN  \A b \in TeamFragments \cap DOMAIN result :
                 LET out == {TeamKeyOf(b, r) : r \in Range(result[b])}
                 IN  /\ out \cap Reserved = {}
                     /\ \A k \in RawTeamKeys(Template(task), payload) :
                           (k < Unmatched /\ k \notin Reserved) => k \in out
                     /\ b # "teams" => \A k \in out : k < Unmatched

\* The matches orchestrator has fetched an event whose payload names teams
\* of the reserved range, among them both its ends, and a team outside it.
C28_Witness ==
    /\ task = "matches"
    /\ pc = "flush"
    /\ idx > 0
    /\ resp = "200"
    /\ LET endpoint == Endpoint("matches", keys[idx])
           named == RawTeamKeys("matches", RawPayload(endpoint, upstream[endpoint]))
       IN  /\ {reserved_lo, reserved_hi} \subseteq named
           /\ \E k \in named \ Reserved : k < Unmatched
           /\ \E k \in named : k >= Unmatched
           /\ \E u \in units :
                 /\ u.endpoint = endpoint
                 /\ \E f \in u.frames : f[1] = "match_alliance_teams"

\* -------------------------------------------- the normalizers on any payload
\* The longest events payload, the most alliances of a payload and the
\* longest picks list.
MaxEvents == 2
MaxAlliances == 2
MaxPicks == 3

\* Event types of a payload: the four placeholder types, their neighbours
\* and two ordinary types.
EventTypes == {0 - 1, 0, 1, 6, 7, 8, 98, 99, 100, 101}

\* The events payloads of 2024: up to MaxEvents events, the first of them
\* 2024pnw, each of any type, with or without a district.
EventPayloads ==
    LET event_keys == <<"2024pnw", "2024demo", "2024wasno">>
    IN  UNION { { [i \in 1..n |->
                     RawEvent(event_keys[i], 2024, f[i][1], 60, 62, <<>>, f[i][2], 1)] :
                  f \in [1..n -> EventTypes \X {None, "2024pnw", "2024fim"}] } :
                n \in 0..MaxEvents }

\* The picks lists: teams 1 and 2, a reserved team and a key without a
\* number, in any order.
PickLists ==
    UNION { [1..n -> {1, 2, 9994, Unmatched + 2}] : n \in 0..MaxPicks }

\* The alliances payloads: up to MaxAlliances alliances with their picks.
AlliancePayloads ==
    LET names == <<"Alliance 1", "Alliance 2", "Alliance 3">>
    IN  UNION { { [i \in 1..n |->
                     [name |-> names[i], picks |-> f[i], backup_in |-> NoTeam,
                      backup_out |-> NoTeam, v |-> 1]] :
                  f \in [1..n -> PickLists] } :
                n \in 0..MaxAlliances }

\* A payload has arrived: the parsed response of /events/2024 or of
\* /event/2024pnw/alliances.
NormalizeInit ==
    /\ call \in {[site |-> "events", data |-> data] : data \in EventPayloads}
          \cup {[site |-> "alliances", data |-> data] : data \in AlliancePayloads}
    /\ db = EmptyDB
    /\ now = 0
    /\ upstream = At(1)
    /\ flow = Idle
    /\ task = None
    /\ sync_type = None
    /\ batch_size = BatchSize
    /\ pc = None
    /\ attempt = 0
    /\ keys = <<>>
    /\ idx = 0
    /\ cached = {}
    /\ valid = {}
    /\ acc = NewAccumulator
    /\ fpos = 1
    /\ resp = None
    /\ units = {}
    /\ committed = {}
    /\ ledger = <<>>
    /\ fetched = {}
    /\ changes = 0
    /\ faults = 0
    /\ runs = 0
    /\ done = NoDone
    /\ delay = NoDelay
    /\ peer = NoPeer

\* get_events normalizes the payload.
normalize_events ==
    /\ call.site = "events"
    /\ call' = [site |-> "get_events", data |-> call.data,
                events |-> events_frames(call.data).events,
                event_districts |-> events_frames(call.data).event_districts]
    /\ UNCHANGED <<env, store, flow, done, task, sync_type, run_state, pc, attempt,
                   resp, faults, runs, delay, peer>>

\* get_alliances normalizes the payload of event 2024pnw.
normalize_alliances ==
    /\ call.site = "alliances"
    /\ call' = [site |-> "get_alliances", data |-> call.data, event_key |-> "2024pnw",
                alliance_teams |-> alliance_teams_frame("2024pnw", call.data)]
    /\ UNCHANGED <<env, store, flow, done, task, sync_type, run_state, pc, attempt,
                   resp, faults, runs, delay, peer>>

NormalizeNext == normalize_events \/ normalize_alliances

NormalizeSpec == NormalizeInit /\ [][NormalizeNext]_vars

\* The positions of a payload whose event is no placeholder.
KeptAt(data) == {i \in DOMAIN data : data[i].event_type \notin {0 - 1, 7, 99, 100}}

\* The n-th of them.
NthKept(data, n) ==
    CHOOSE p \in KeptAt(data) : Cardinality({q \in KeptAt(data) : q <= p}) = n

\* C29: the events normalizer removes every event of type -1, 7, 99 or 100
\* and keeps every other event of the payload, in order; the districts
\* fragment holds the districts of the kept events and no other; and the
\* payload of 2024pnw (type 0) and a demo event (type 99) yields 2024pnw
\* alone.
C29_PlaceholdersRemoved ==
    call.site = "get_events" =>
       /\ Len(call.events) = Cardinality(KeptAt(call.data))
       /\ \A n \in DOMAIN call.events :
             LET raw == call.data[NthKept(call.data, n)]
             IN  /\ call.events[n].key = raw.key
                 /\ call.events[n].event_type = raw.event_type
                 /\ call.events[n].district_key = raw.district
       /\ {d.key : d \in Range(call.event_districts)}
             = {call.data[i].district : i \in KeptAt(call.data)} \ {None}
       /\ \A i, j \in DOMAIN call.event_districts :
             i # j => call.event_districts[i] # call.event_districts[j]
       /\ ([i \in DOMAIN call.data |-> <<call.data[i].key, call.data[i].event_type>>]
             = << <<"2024pnw", 0>>, <<"2024demo", 99>> >>
           => [i \in DOMAIN call.events |-> call.events[i].key] = <<"2024pnw">>)

\* The payload of 2024pnw, of type 0 in district 2024pnw, and a demo event
\* of type 99 in another district has been normalized: one event and one
\* district came out.
C29_Witness ==
    /\ call.site = "get_events"
    /\ [i \in DOMAIN call.data |->
          <<call.data[i].key, call.data[i].event_type, call.data[i].district>>]
          = << <<"2024pnw", 0, "2024pnw">>, <<"2024demo", 99, "2024fim">> >>
    /\ Len(call.events) = 1
    /\ Len(call.event_districts) = 1

\* C30: each alliance-team row carries the event key and the name of the
\* alliance it comes from, and a pick_order that is the 1-based position of
\* its team in that alliance's picks as the payload lists them; every pick
\* outside the reserved range has its row, so the picks that follow a
\* removed placeholder team keep their numbers.
C30_PickOrderIsPosition ==
    call.site = "get_alliances" =>
       /\ \A r \in Range(call.alliance_teams) :
             /\ r.event_key = call.event_key
             /\ \E a \in Range(call.data) :
                   /\ a.name = r.alliance_name
                   /\ r.pick_order \in DOMAIN a.picks
                   /\ a.picks[r.pick_order] = r.team_key
       /\ \A a \in Range(call.data) : \A p \in DOMAIN a.picks :
             (a.picks[p] < Unmatched /\ a.picks[p] \notin Reserved)
             => \E r \in Range(call.alliance_teams) :
                   /\ r.alliance_name = a.name
                   /\ r.pick_order = p
                   /\ r.team_key = a.picks[p]

\* An alliance that picked team 1, a placeholder team and team 2 has been
\* normalized: team 2 stands at pick_order 3 and no row has pick_order 2.
C30_Witness ==
    /\ call.site = "get_alliances"
    /\ Len(call.data) = 2
    /\ call.data[1].picks = <<1, 9994, 2>>
    /\ \E r \in Range(call.alliance_teams) :
          /\ r.alliance_name = call.data[1].name
          /\ r.team_key = 2
          /\ r.pick_order = 3
    /\ \A r \in Range(call.alliance_teams) :
          r.alliance_name = call.data[1].name => r.pick_order # 2

\* ------------------------------------------------- the accumulator by itself
\* The most frames held in a bucket, and the most pending tokens.
MaxHeld == 2

\* The buckets, frames and tokens the calls are made with.
BucketNames == {"matches", "match_alliances"}
SomeFrames == {<<>>, <<[key |-> 1]>>, <<[key |-> 1], [key |-> 2]>>}
SomeTokens == {[endpoint |-> Endpoint("matches", e), etag |-> 1] : e \in {"1994a", "1994b"}}

\* accumulator.add_data(key, df)
acc_add_data ==
    /\ \E key \in BucketNames, df \in SomeFrames :
          /\ Len(get_data(acc, key)) < MaxHeld
          /\ acc' = add_data(acc, key, df)
          /\ call' = [site |-> "add_data", key |-> key, df |-> df]
    /\ UNCHANGED <<env, store, flow, done, task, sync_type, batch_size, pc, attempt,
                   keys, idx, cached, valid, fpos, resp, faults, runs, delay, peer>>

\* accumulator.clear_data(key)
acc_clear_data ==
    /\ \E key \in BucketNames :
          /\ acc' = clear_data(acc, key)
          /\ call' = [site |-> "clear_data", key |-> key]
    /\ UNCHANGED <<env, store, flow, done, task, sync_type, batch_size, pc, attempt,
                   keys, idx, cached, valid, fpos, resp, faults, runs, delay, peer>>

\* accumulator.add_etag(endpoint, etag)
acc_add_etag ==
    /\ Len(acc.etags) < MaxHeld
    /\ \E token \in SomeTokens :
          /\ acc' = add_etag(acc, token.endpoint, token.etag)
          /\ call' = [site |-> "add_etag", token |-> token]
    /\ UNCHANGED <<env, store, flow, done, task, sync_type, batch_size, pc, attempt,
                   keys, idx, cached, valid, fpos, resp, faults, runs, delay, peer>>

\* accumulator.clear_etags()
acc_clear_etags ==
    /\ acc' = clear_etags(acc)
    /\ call' = [site |-> "clear_etags"]
    /\ UNCHANGED <<env, store, flow, done, task, sync_type, batch_size, pc, attempt,
                   keys, idx, cached, valid, fpos, resp, faults, runs, delay, peer>>

AccumulatorNext == acc_add_data \/ acc_clear_data \/ acc_add_etag \/ acc_clear_etags

AccumulatorSpec == CallInit /\ [][AccumulatorNext]_vars

\* C31: add_data with an empty fragment leaves the accumulator as it was,
\* and add_data or clear_data on one bucket changes neither the contents of
\* another bucket nor the pending validator updates.
C31_BucketsIndependent ==
    [][/\ (call'.site = "add_data" /\ call'.df = <<>>) => acc' = acc
       /\ call'.site \in {"add_data", "clear_data"}
          => /\ \A b \in BucketNames \ {call'.key} :
                   /\ get_data(acc', b) = get_data(acc, b)
                   /\ b \in DOMAIN acc'.data <=> b \in DOMAIN acc.data
             /\ acc'.etags = acc.etags]_vars

\* An empty fragment has been added to a bucket while both buckets held
\* frames and tokens were pending.
C31_Witness ==
    /\ call.site = "add_data"
    /\ call.df = <<>>
    /\ \A b \in BucketNames : get_data(acc, b) # <<>>
    /\ acc.etags # <<>>


\* ---------------------------------------------------------------------------
\* Two flow runs side by side: full_sync is in its sync_matches, and a run of
\* year_sync, scheduled on its own, is in the sync_matches it imports from
\* pipeline/tasks/tba.  Each db.upsert is a session of its own, so the
\* statements of the two runs interleave one by one, and upstream may publish
\* a new version of an event's matches at any instant.
\* ---------------------------------------------------------------------------
InterleaveInit ==
    /\ now = 480
    /\ upstream = [e \in Endpoints |-> 1]
    /\ db = ParticipationStore(DataPages)
    /\ flow = [name |-> "full", step |-> 4, attempt |-> 1]
    /\ task = None
    /\ sync_type = None
    /\ batch_size = BatchSize
    /\ pc = None
    /\ attempt = 0
    /\ keys = <<>>
    /\ idx = 0
    /\ cached = {}
    /\ valid = {}
    /\ acc = NewAccumulator
    /\ fpos = 1
    /\ resp = None
    /\ units = {}
    /\ committed = {}
    /\ ledger = <<>>
    /\ fetched = {}
    /\ changes = 0
    /\ faults = 0
    /\ runs = 0
    /\ call = NoCall
    /\ done = NoDone
    /\ delay = NoDelay
    /\ peer = NoPeer

\* matches_list, match_alliances_list, match_alliance_teams_list, etags_list
NoLists ==
    [matches |-> <<>>, match_alliances |-> <<>>, match_alliance_teams |-> <<>>,
     etags |-> <<>>]

\* tasks/tba sync_matches begins in the other run: it resolves its scope.
peer_sync_matches_start ==
    /\ peer = NoPeer
    /\ LET event_keys == get_event_keys(db, "year", now)
       IN  peer' = [name |-> "year", task |-> "matches", keys |-> event_keys,
                    idx |-> 0, lists |-> NoLists, fpos |-> 1,
                    pc |-> IF event_keys = <<>> THEN "write" ELSE "loop"]
    /\ UNCHANGED <<env, store, flow, done, task, sync_type, run_state, pc, attempt,
                   resp, call, faults, runs, delay>>

\* One iteration of its loop: the token is read from the store as it stands
\* and sent; a payload's frames and token are appended to the lists.
peer_sync_matches_iterate ==
    /\ peer.name = "year"
    /\ peer.pc = "loop"
    /\ LET event_key == peer.keys[peer.idx + 1]
           etag_key == Endpoint("matches", event_key)
           result == get_matches(upstream, event_key, get_etag(db, etag_key))
           more == IF peer.idx + 1 < Len(peer.keys) THEN "loop" ELSE "write"
       IN  peer' =
              IF result.hit THEN [peer EXCEPT !.idx = @ + 1, !.pc = more]
              ELSE [peer EXCEPT
                      !.idx = @ + 1,
                      !.pc = more,
                      !.lists =
                         [matches |-> Append(@.matches, result.matches),
                          match_alliances |->
                              Append(@.match_alliances, result.match_alliances),
                          match_alliance_teams |->
                              Append(@.match_alliance_teams,
                                     result.match_alliance_teams),
                          etags |-> IF result.etag # NoEtag
                                    THEN Append(@.etags, [endpoint |-> etag_key,
                                                          etag |-> result.etag])
                                    ELSE @.etags]]
    /\ UNCHANGED <<env, store, flow, done, task, sync_type, run_state, pc, attempt,
                   resp, call, faults, runs, delay>>

\* After its loop, the next of its statements: the upsert of a list that
\* holds something, the match alliance teams filtered against the roster as
\* it stands; the tokens come last.
peer_sync_matches_write ==
    /\ peer.name = "year"
    /\ peer.pc = "write"
    /\ LET b == Statements("matches")[peer.fpos]
           df == IF b = "etags" THEN peer.lists.etags
                 ELSE IF b = "match_alliance_teams"
                 THEN filter_valid(Concat(peer.lists[b]), get_team_keys(db))
                 ELSE Concat(peer.lists[b])
           res == upsert(db, df, b, ConflictKey(b))
       IN  IF peer.lists[b] # <<>> /\ ~res.ok
           THEN /\ peer' = [peer EXCEPT !.pc = "failed"]
                /\ UNCHANGED db
           ELSE /\ db' = IF peer.lists[b] = <<>> THEN db ELSE res.db
                /\ peer' = IF peer.fpos < Len(Statements("matches"))
                           THEN [peer EXCEPT !.fpos = @ + 1]
                           ELSE [peer EXCEPT !.pc = "done"]
    /\ UNCHANGED <<env, units, committed, ledger, fetched, flow, done, task, sync_type,
                   run_state, pc, attempt, resp, call, faults, runs, delay>>

\* Upstream publishes a new version of an event's matches, whatever the runs
\* are doing.
matches_change ==
    /\ changes < MaxChanges
    /\ \E e \in {m \in Mutable : m[1] = "matches"} :
          /\ upstream[e] < MaxVer
          /\ upstream' = [upstream EXCEPT ![e] = @ + 1]
    /\ changes' = changes + 1
    /\ UNCHANGED <<now, store, flow, done, task, sync_type, run_state, pc, attempt,
                   resp, call, faults, runs, delay, peer>>

InterleaveNext ==
    \/ Start("matches")
    \/ Iterate("matches")
    \/ Flush("matches")
    \/ peer_sync_matches_start
    \/ peer_sync_matches_iterate
    \/ peer_sync_matches_write
    \/ matches_change

InterleaveSpec == InterleaveInit /\ [][InterleaveNext]_vars

\* The match rows the store holds for an event, and those of upstream's
\* current payload.
StoredMatches(event_key) == {r \in db.matches : r.event_key = event_key}

CurrentMatches(event_key) ==
    Range(get_matches(upstream, event_key, NoEtag).matches)

\* C32: with a run of full_sync and a run of year_sync interleaved over the
\* events their scopes share, whenever the stored token of an event's matches
\* equals upstream's current token, the stored match rows of the event are
\* those of upstream's current payload.
C32_CurrentTokenCurrentRows ==
    \A e \in EventKeys :
       get_etag(db, Endpoint("matches", e)) = upstream[Endpoint("matches", e)]
          => StoredMatches(e) = CurrentMatches(e)


\* The bucket of team-keyed child rows an event-scoped endpoint template
\* feeds.
ChildOf(kind) ==
    CASE kind = "event_teams" -> "event_teams"
      [] kind = "matches" -> "match_alliance_teams"
      [] kind = "rankings" -> "rankings"
      [] kind = "alliances" -> "alliance_teams"

\* The child rows of upstream's current payload of an endpoint that the
\* store does not hold.
AbsentRows(kind, event_key) ==
    { r \in Range(Fetch(kind, upstream, event_key, NoEtag)[ChildOf(kind)]) :
         r \notin db[ChildOf(kind)] }

\* C33: a child row that the valid-team filter dropped, and whose fetch's
\* token is stored, is inserted by no later step while upstream keeps that
\* resource as it is, whether or not the row's team has since been added to
\* the teams table: the fetch is answered NotModified.
C33_DroppedRowStaysAbsent ==
    [][\A kind \in {"event_teams", "matches", "rankings", "alliances"} :
          \A e \in EventKeys :
             (/\ get_etag(db, Endpoint(kind, e)) = upstream[Endpoint(kind, e)]
              /\ upstream'[Endpoint(kind, e)] = upstream[Endpoint(kind, e)])
                => \A r \in AbsentRows(kind, e) : r \notin db'[ChildOf(kind)]]_vars

\* A later run has added the team of such a row to the teams table, and its
\* fetch of the row's event has been answered NotModified.
C33_Witness ==
    /\ task \in {"event_teams", "matches", "rankings", "alliances"}
    /\ resp = "304"
    /\ idx > 0
    /\ get_etag(db, Endpoint(task, keys[idx])) = upstream[Endpoint(task, keys[idx])]
    /\ \E r \in AbsentRows(task, keys[idx]) : r.team_key \in get_team_keys(db)


\* C34: the active window is compared at whole-date granularity, and the
\* 2-hour part of the buffer changes no outcome: an event is active exactly
\* when start_date - 1 day <= today in its timezone <= end_date + 1 day, and
\* the LIVE scope is the current year's events for which that holds.
C34_WholeDateWindow ==
    /\ \A e \in db.events :
          LET today == LocalDate(now, e.timezone)
          IN  is_event_active(e, now)
              <=> (e.start_date - 1 <= today /\ today <= e.end_date + 1)
    /\ sync_type = "live" =>
          Range(keys) =
             { e.key : e \in { f \in db.events :
                                  /\ f.year = CurrentYear(now)
                                  /\ f.start_date - 1 <= LocalDate(now, f.timezone)
                                  /\ LocalDate(now, f.timezone) <= f.end_date + 1 } }

\* The resolver has answered LIVE at noon of the day after the scenario
\* event's end date, 36 hours past the end date's midnight, with that event
\* in scope; the event of the same days eight hours west is in scope too.
C34_Witness ==
    /\ now = (Mar1 + 3) * 24 + 12
    /\ sync_type = "live"
    /\ {ScenarioEvent, StoredEvent("2024w", 2024, Mar1, Mar1 + 2, <<0 - 8>>)}
          \subseteq db.events
    /\ {"2024s", "2024w"} \subseteq Range(keys)


\* The orchestrators whose scope is a list of event keys.
EventScoped == {"event_teams", "matches", "rankings", "alliances"}

\* The start date of a stored event.
StartDateOf(event_key) == (CHOOSE e \in db.events : e.key = event_key).start_date

\* C35: an event-scoped orchestrator resolves its scope, the validator map
\* and the valid-team set once, when an attempt begins, and keeps them to the
\* attempt's end; the scope is in ascending start-date order without
\* repeats; every pass of the loop fetches the key after the one fetched
\* before, unless it raises and ends the attempt, and the attempt completes
\* only past the last key.
C35_OnePassInOrder ==
    [][task' \in EventScoped =>
        /\ (pc' # pc /\ (task = None \/ pc = "failed"))
              => /\ keys' = get_event_keys(db, sync_type', now)
                 /\ cached' = bulk_get_etags(db, task')
                 /\ valid' = get_team_keys(db)
                 /\ idx' = 0
                 /\ \A i, j \in DOMAIN keys' :
                       i < j => /\ keys'[i] # keys'[j]
                                /\ StartDateOf(keys'[i]) <= StartDateOf(keys'[j])
        /\ (task = task' /\ pc \in {"loop", "flush", "final"})
              => /\ keys' = keys
                 /\ cached' = cached
                 /\ valid' = valid
                 /\ IF pc = "loop"
                    THEN /\ resp' \notin {"304", "200"}
                               => pc' = "failed" /\ fetched' = fetched
                         /\ resp' = "200"
                               => Endpoint(task, keys[idx + 1]) \in fetched'
                         /\ resp' = "304"
                               => /\ lookup(cached, Endpoint(task, keys[idx + 1]))
                                        = upstream[Endpoint(task, keys[idx + 1])]
                                  /\ fetched' = fetched
                         /\ idx' = idx + 1 \/ (pc' = "failed" /\ idx' = idx)
                    ELSE idx' = idx /\ fetched' = fetched
                 /\ pc' = "done" => idx' = Len(keys)]_vars

\* An attempt is past its first fetch of a scope of two events with
\* different start dates, and the store's tokens are no longer those the
\* attempt read at its start.
C35_Witness ==
    /\ task \in EventScoped
    /\ pc = "loop"
    /\ idx >= 1
    /\ Len(keys) >= 2
    /\ StartDateOf(keys[1]) < StartDateOf(keys[2])
    /\ cached # bulk_get_etags(db, task)


\* ---------------------------------------------------------------------------
\* The teams orchestrators on their own, run and run again: sync_teams as
\* full_sync's first step and sync_teams of pipeline/tasks/tba, over the
\* roster of DataPages pages and over one of more pages than max_pages.
\* ---------------------------------------------------------------------------
TeamPages == {Endpoint("teams", p) : p \in 0..(max_pages + 1)}

TeamsInit ==
    /\ now = 239
    /\ \E v \in {1, LongRoster} :
          upstream = [e \in Endpoints \cup TeamPages |->
                        IF e \in TeamPages THEN v ELSE 1]
    /\ db = EmptyDB
    /\ \E name \in {"full", "tba_teams"} : flow = [name |-> name, step |-> 1, attempt |-> 1]
    /\ task = None
    /\ sync_type = None
    /\ batch_size = BatchSize
    /\ pc = None
    /\ attempt = 0
    /\ keys = <<>>
    /\ idx = 0
    /\ cached = {}
    /\ valid = {}
    /\ acc = NewAccumulator
    /\ fpos = 1
    /\ resp = None
    /\ units = {}
    /\ committed = {}
    /\ ledger = <<>>
    /\ fetched = {}
    /\ changes = 0
    /\ faults = 0
    /\ runs = 0
    /\ call = NoCall
    /\ done = NoDone
    /\ delay = NoDelay
    /\ peer = NoPeer

TeamsNext ==
    \/ Start("teams")
    \/ Iterate("teams")
    \/ Flush("teams")
    \/ tba_start("tba_teams")
    \/ tba_iterate("tba_teams")
    \/ Flush("tba_teams")
    \/ Raises("teams")
    \/ Raises("tba_teams")
    \/ participation_returns
    \/ upstream_changes

TeamsSpec == TeamsInit /\ [][TeamsNext]_vars


TeamsTasks == {"teams", "tba_teams"}

\* A bound on the steps an attempt at a position has yet to make: the pages
\* to go, then the statements of the flush cycle to go.
StepsLeft(at, pages, statement) ==
    CASE at = "loop" -> 10 * (max_pages - pages) + 5
      [] at = "flush" -> 10 * (max_pages - pages) + 5 + (4 - statement)
      [] at = "final" -> 4 - statement
      [] OTHER -> 0

\* C36: the teams orchestrator fetches page idx after idx pages, one page a
\* pass; it leaves the loop at the first page answered with a payload whose
\* normalized fragment is empty, or after max_pages pages, and it makes no
\* fetch beyond; when it completes, every fragment it accumulated has been
\* upserted and its teams are stored.  It terminates: every step of an
\* attempt either raises or brings the attempt nearer its end.
C36_TeamsLoopEnds ==
    [][(task' \in TeamsTasks /\ task = task') =>
         /\ idx' <= max_pages
         /\ pc = "loop" =>
               /\ idx < max_pages
               /\ keys[idx + 1] = idx
               /\ LET stops == /\ resp' = "200"
                               /\ get_teams(upstream, idx, NoEtag).teams = <<>>
                  IN  /\ stops => idx' = idx /\ pc' \in {"final", "done"}
                      /\ (resp' = "304" \/ (resp' = "200" /\ ~stops))
                            => idx' = idx + 1
                      /\ resp' = "200" => Endpoint("teams", idx) \in fetched'
                      /\ pc' \in {"final", "done"} => stops \/ idx' = max_pages
         /\ (pc = "flush" /\ pc' \in {"final", "done"}) => idx = max_pages
         /\ (pc' = "done" /\ pc # "done") =>
               \A item \in DOMAIN ledger' :
                  /\ ledger'[item] >= 1
                  /\ item[1] = "teams" => Range(item[2]) \subseteq db'.teams
         /\ pc \in {"loop", "flush", "final"} =>
               \/ pc' = "failed"
               \/ StepsLeft(pc', idx', fpos') < StepsLeft(pc, idx, fpos)]_vars

\* The orchestrator has completed over the long roster after max_pages
\* pages, none of them empty, and the store holds a team of each.
C36_Witness ==
    /\ task \in TeamsTasks
    /\ pc = "done"
    /\ idx = max_pages
    /\ \A p \in 0..(max_pages - 1) : \E r \in db.teams : r.key = p + 1
    /\ \A e \in fetched : e[2] < max_pages


\* live_sync's orchestrators as its body lists them.
LiveOrder == <<"event_teams", "matches", "rankings", "alliances">>

Stamped(rows, at) ==
    { [c \in DOMAIN r \cup {"created_at", "updated_at"} |->
          IF c \in DOMAIN r THEN r[c] ELSE at] : r \in rows }

\* The frame of the page past the roster's end: no rows.
EmptyFragment ==
    [table_name |-> "teams", df |-> get_teams(At(1), DataPages, NoEtag).teams]

UpsertInit ==
    /\ now = 0
    /\ \E pages \in SUBSET {0, 1}, tokens \in SUBSET {0} :
          db = [EmptyDB EXCEPT
                  !.teams = Stamped(UNION {Range(get_teams(At(1), p, NoEtag).teams) :
                                             p \in pages}, 0 - 1),
                  !.etags = Stamped({[endpoint |-> Endpoint("teams", p), etag |-> 1] :
                                       p \in tokens}, 0 - 1)]
    /\ call = NoCall
    /\ upstream = At(1)
    /\ flow = Idle
    /\ task = None
    /\ sync_type = None
    /\ batch_size = BatchSize
    /\ pc = None
    /\ attempt = 0
    /\ keys = <<>>
    /\ idx = 0
    /\ cached = {}
    /\ valid = {}
    /\ acc = NewAccumulator
    /\ fpos = 1
    /\ resp = None
    /\ units = {}
    /\ committed = {}
    /\ ledger = <<>>
    /\ fetched = {}
    /\ changes = 0
    /\ faults = 0
    /\ runs = 0
    /\ done = NoDone
    /\ delay = NoDelay
    /\ peer = NoPeer

\* One call of DBService.upsert with a frame, the empty one among them; the
\* statement is executed and commits, or is refused and rolled back.
upsert_called ==
    /\ \E f \in Fragments \cup {EmptyFragment} :
          LET res == Apply(db, f)
              made == retrying("upsert", Always(IF res.ok THEN "ok" ELSE "integrity"), 0)
          IN  /\ call' = Called(made, [df |-> f.df, table_name |-> f.table_name,
                                       before |-> db])
              /\ db' = IF made.status = "returned" THEN res.db ELSE db
    /\ UNCHANGED <<env, units, committed, ledger, fetched, flow, done, task,
                   sync_type, run_state, pc, attempt, resp, faults, runs, delay, peer>>

UpsertNext == upsert_called

UpsertSpec == UpsertInit /\ [][UpsertNext]_vars

HeldAllianceTeams == Range(Concat(get_data(acc, "alliance_teams")))

\* C39: every alliance-team row the alliances orchestrator upserts has its
\* (event_key, team_key) pair in the event participation table, so that the
\* upsert of the rows the valid-team prefilter let through meets no
\* constraint violation.
C39_AllianceTeamsParticipate ==
    /\ (task = "alliances" /\ pc \in {"flush", "final"})
          => \A r \in HeldAllianceTeams :
                \E p \in db.event_teams :
                   p.event_key = r.event_key /\ p.team_key = r.team_key
    /\ ~(/\ task = "alliances"
         /\ pc = "failed"
         /\ call.site = "upsert"
         /\ call.outcome = "integrity"
         /\ Statements("alliances")[fpos] = "alliance_teams")

=============================================================================
